---------------------------- MODULE Spec2Model ----------------------------
(***************************************************************************)
(* uc-mon: JavaScript asset monitor.                                       *)
(*                                                                         *)
(*   FilenameNormalizer  (src/unnamed/part_000)  URL -> stable identifier  *)
(*   Storage             (src/src/storage.js)    JSON metadata + content   *)
(*                                               files, versions per script*)
(*   UCMon.scan          (src/src/storage.js)    the scan orchestrator     *)
(*                                                                         *)
(* Strings are sequences of one-character strings, so that the regular     *)
(* expressions of the normalizer are computed character by character.      *)
(***************************************************************************)
EXTENDS Naturals, Integers, Sequences, FiniteSets, TLC

(***************************************************************************)
(* Characters and character classes (JavaScript RegExp, ASCII).            *)
(***************************************************************************)
Digits == {"0", "1", "2", "3", "4", "5", "6", "7", "8", "9"}

LowerSeq ==
  <<"a", "b", "c", "d", "e", "f", "g", "h", "i", "j", "k", "l", "m",
    "n", "o", "p", "q", "r", "s", "t", "u", "v", "w", "x", "y", "z">>

UpperSeq ==
  <<"A", "B", "C", "D", "E", "F", "G", "H", "I", "J", "K", "L", "M",
    "N", "O", "P", "Q", "R", "S", "T", "U", "V", "W", "X", "Y", "Z">>

LowerLetters == {LowerSeq[i] : i \in DOMAIN LowerSeq}

UpperLetters == {UpperSeq[i] : i \in DOMAIN UpperSeq}

HexLetters == {"a", "b", "c", "d", "e", "f", "A", "B", "C", "D", "E", "F"}

\* the i flag: a pattern letter matches both cases
Lower(c) ==
  IF c \in UpperLetters
    THEN LowerSeq[CHOOSE i \in DOMAIN UpperSeq : UpperSeq[i] = c]
    ELSE c

\* [a-f0-9] under the i flag
HexChars == Digits \cup HexLetters

\* \w
WordChars == LowerLetters \cup UpperLetters \cup Digits \cup {"_"}

\* [\w.]
WordDotChars == WordChars \cup {"."}

\* [.\-_]
SepChars == {".", "-", "_"}

(***************************************************************************)
(* Matching helpers.  A matcher gives, for a string s and a position i,    *)
(* the length of the match of its pattern that starts at i, or 0.  No      *)
(* pattern of the program matches the empty string.                        *)
(***************************************************************************)
\* the character at i, "" outside the string
At(s, i) == IF i >= 1 /\ i <= Len(s) THEN s[i] ELSE ""

\* length of the longest run of characters of the class cls that starts
\* at i (a greedy quantifier): the run ends at the first j outside cls
RunOf(cls, s, i) ==
  IF i < 1 \/ i > Len(s) THEN 0
  ELSE (CHOOSE j \in i..(Len(s) + 1) :
          /\ \A k \in i..(j - 1) : s[k] \in cls
          /\ j = Len(s) + 1 \/ At(s, j) \notin cls) - i

\* length of the longest run of characters other than those of stops
RunUntil(stops, s, i) ==
  IF i < 1 \/ i > Len(s) THEN 0
  ELSE (CHOOSE j \in i..(Len(s) + 1) :
          /\ \A k \in i..(j - 1) : s[k] \notin stops
          /\ j = Len(s) + 1 \/ At(s, j) \in stops) - i

\* the literal lit (lower case) at i, ignoring case
LitAt(s, i, lit) ==
  /\ i >= 1
  /\ i + Len(lit) - 1 <= Len(s)
  /\ \A k \in 1..Len(lit) : Lower(s[i + k - 1]) = lit[k]

\* the literal lit at i, case-sensitive
LitAtCS(s, i, lit) ==
  /\ i >= 1
  /\ i + Len(lit) - 1 <= Len(s)
  /\ \A k \in 1..Len(lit) : s[i + k - 1] = lit[k]

Min(a, b) == IF a <= b THEN a ELSE b

\* a run of r characters under the quantifier {lo,hi}: what it consumes
Quant(r, lo, hi) == IF r >= lo THEN Min(r, hi) ELSE 0

\* a prefix of k characters followed by a run of r under {lo,}
Prefixed(k, r, lo) == IF r >= lo THEN k + r ELSE 0

(***************************************************************************)
(* FilenameNormalizer.patterns: the ordered table of (regex, replacement). *)
(***************************************************************************)
S_hash == <<"[", "h", "a", "s", "h", "]">>

S_dothash == <<".", "[", "h", "a", "s", "h", "]", ".">>

S_chunkid == <<"c", "h", "u", "n", "k", ".", "[", "i", "d", "]">>

S_id == <<"[", "i", "d", "]">>

S_chunk == <<"[", "c", "h", "u", "n", "k", "]">>

S_slashchunkjs == <<"/", "[", "c", "h", "u", "n", "k", "]", ".", "j", "s">>

S_version == <<"[", "v", "e", "r", "s", "i", "o", "n", "]">>

S_timestamp == <<"[", "t", "i", "m", "e", "s", "t", "a", "m", "p", "]">>

S_uuid == <<"[", "u", "u", "i", "d", "]">>

S_buildn == <<"b", "u", "i", "l", "d", "[", "n", "]">>

S_runtimename ==
  <<"r", "u", "n", "t", "i", "m", "e", "~", "[", "n", "a", "m", "e", "]">>

L_chunk == <<"c", "h", "u", "n", "k">>

L_build == <<"b", "u", "i", "l", "d">>

L_runtime == <<"r", "u", "n", "t", "i", "m", "e", "~">>

L_dotjs == <<".", "j", "s">>

\* /([a-f0-9]{8,32})/gi
M_hash(s, i) == Quant(RunOf(HexChars, s, i), 8, 32)

\* /\.([a-f0-9]{6,})\./gi : r hexadecimal characters after the dot at i
DotHashEnd(s, i, r) == IF r >= 6 /\ At(s, i + 1 + r) = "." THEN r + 2 ELSE 0

M_dothash(s, i) ==
  IF At(s, i) = "." THEN DotHashEnd(s, i, RunOf(HexChars, s, i + 1)) ELSE 0

\* /chunk[.\-_](\d+)/gi
M_chunkid(s, i) ==
  IF LitAt(s, i, L_chunk) /\ At(s, i + 5) \in SepChars
    THEN Prefixed(6, RunOf(Digits, s, i + 6), 1)
    ELSE 0

\* /\/(\d+)\.js$/i : no g flag, anchored at the end of the string;
\* r digits after the slash at i
NumberedEnd(s, i, r) ==
  IF r >= 1 /\ LitAt(s, i + 1 + r, L_dotjs) /\ i + r + 3 = Len(s)
    THEN r + 4
    ELSE 0

M_numbered(s, i) ==
  IF At(s, i) = "/" THEN NumberedEnd(s, i, RunOf(Digits, s, i + 1)) ELSE 0

\* /[v]?\d+\.\d+\.\d+(-[\w.]+)?/gi
\* the position after \d+ at a (a itself when there is no digit)
NumEnd(s, a) == a + RunOf(Digits, s, a)

\* (-[\w.]+)? at e
VersionPre(s, e) ==
  IF At(s, e) = "-" THEN Prefixed(1, RunOf(WordDotChars, s, e + 1), 1) ELSE 0

\* the third number spans c1..e-1
VersionPatch(s, i, c1, e) == IF e > c1 THEN (e - i) + VersionPre(s, e) ELSE 0

\* the second number spans b1..c-1
VersionMinor(s, i, b1, c) ==
  IF c > b1 /\ At(s, c) = "."
    THEN VersionPatch(s, i, c + 1, NumEnd(s, c + 1))
    ELSE 0

\* the first number spans a..b-1
VersionMajor(s, i, a, b) ==
  IF b > a /\ At(s, b) = "."
    THEN VersionMinor(s, i, b + 1, NumEnd(s, b + 1))
    ELSE 0

VersionFrom(s, i, a) == VersionMajor(s, i, a, NumEnd(s, a))

M_version(s, i) ==
  VersionFrom(s, i, IF Lower(At(s, i)) = "v" THEN i + 1 ELSE i)

\* /\b\d{10,13}\b/g : a run of r digits at i
TimestampLen(s, i, r) ==
  IF /\ r >= 10
     /\ r <= 13
     /\ At(s, i - 1) \notin WordChars
     /\ At(s, i + r) \notin WordChars
    THEN r
    ELSE 0

M_timestamp(s, i) == TimestampLen(s, i, RunOf(Digits, s, i))

\* /[a-f0-9]{8}-[a-f0-9]{4}-[a-f0-9]{4}-[a-f0-9]{4}-[a-f0-9]{12}/gi
M_uuid(s, i) ==
  IF /\ RunOf(HexChars, s, i) = 8       /\ At(s, i + 8) = "-"
     /\ RunOf(HexChars, s, i + 9) = 4   /\ At(s, i + 13) = "-"
     /\ RunOf(HexChars, s, i + 14) = 4  /\ At(s, i + 18) = "-"
     /\ RunOf(HexChars, s, i + 19) = 4  /\ At(s, i + 23) = "-"
     /\ RunOf(HexChars, s, i + 24) >= 12
    THEN 36
    ELSE 0

\* /build[.\-_]?\d+/gi : the digits start at j
BuildFrom(s, i, j) == Prefixed(j - i, RunOf(Digits, s, j), 1)

M_build(s, i) ==
  IF LitAt(s, i, L_build)
    THEN BuildFrom(s, i, IF At(s, i + 5) \in SepChars THEN i + 6 ELSE i + 5)
    ELSE 0

\* /runtime~[\w]+/gi
M_runtime(s, i) ==
  IF LitAt(s, i, L_runtime) THEN Prefixed(8, RunOf(WordChars, s, i + 8), 1) ELSE 0

\* a literal pattern such as /\[hash\]/g
M_lit(s, i, lit) == IF LitAtCS(s, i, lit) THEN Len(lit) ELSE 0

\* /--+/g
M_dashes(s, i) == Quant(RunOf({"-"}, s, i), 2, Len(s))

\* /\.\.+/g
M_dots(s, i) == Quant(RunOf({"."}, s, i), 2, Len(s))

\* this.patterns, in the order of the table; g is the g flag of the regex
patterns ==
  <<[regex |-> "hash",      g |-> TRUE,  replacement |-> S_hash],
    [regex |-> "dothash",   g |-> TRUE,  replacement |-> S_dothash],
    [regex |-> "chunkid",   g |-> TRUE,  replacement |-> S_chunkid],
    [regex |-> "numbered",  g |-> FALSE, replacement |-> S_slashchunkjs],
    [regex |-> "version",   g |-> TRUE,  replacement |-> S_version],
    [regex |-> "timestamp", g |-> TRUE,  replacement |-> S_timestamp],
    [regex |-> "uuid",      g |-> TRUE,  replacement |-> S_uuid],
    [regex |-> "build",     g |-> TRUE,  replacement |-> S_buildn],
    [regex |-> "runtime",   g |-> TRUE,  replacement |-> S_runtimename]>>

\* the chain of replace calls of createIdentifier
identifierPatterns ==
  <<[regex |-> "lit", lit |-> S_hash,      g |-> TRUE, replacement |-> <<>>],
    [regex |-> "lit", lit |-> S_id,        g |-> TRUE, replacement |-> <<>>],
    [regex |-> "lit", lit |-> S_chunk,     g |-> TRUE, replacement |-> <<>>],
    [regex |-> "lit", lit |-> S_timestamp, g |-> TRUE, replacement |-> <<>>],
    [regex |-> "lit", lit |-> S_uuid,      g |-> TRUE, replacement |-> <<>>],
    [regex |-> "lit", lit |-> S_version,   g |-> TRUE, replacement |-> <<>>],
    [regex |-> "dashes", g |-> TRUE, replacement |-> <<"-">>],
    [regex |-> "dots",   g |-> TRUE, replacement |-> <<".">>]>>

\* the length of the match of pattern p that starts at i, or 0
MatchLen(p, s, i) ==
  CASE p.regex = "hash"      -> M_hash(s, i)
    [] p.regex = "dothash"   -> M_dothash(s, i)
    [] p.regex = "chunkid"   -> M_chunkid(s, i)
    [] p.regex = "numbered"  -> M_numbered(s, i)
    [] p.regex = "version"   -> M_version(s, i)
    [] p.regex = "timestamp" -> M_timestamp(s, i)
    [] p.regex = "uuid"      -> M_uuid(s, i)
    [] p.regex = "build"     -> M_build(s, i)
    [] p.regex = "runtime"   -> M_runtime(s, i)
    [] p.regex = "lit"       -> M_lit(s, i, p.lit)
    [] p.regex = "dashes"    -> M_dashes(s, i)
    [] p.regex = "dots"      -> M_dots(s, i)

\* String.prototype.replace: scan left to right, replace a match and, with
\* the g flag, continue after it.  ml[i] is the match length at i.
RECURSIVE SubstFrom(_, _, _, _, _)
SubstFrom(s, ml, i, rep, g) ==
  IF i > Len(s) THEN <<>>
  ELSE IF ml[i] > 0
    THEN rep \o (IF g THEN SubstFrom(s, ml, i + ml[i], rep, g)
                 ELSE SubSeq(s, i + ml[i], Len(s)))
  ELSE <<s[i]>> \o SubstFrom(s, ml, i + 1, rep, g)

\* s.replace(p.regex, p.replacement)
Replace(p, s) ==
  SubstFrom(s, [i \in 1..Len(s) |-> MatchLen(p, s, i)], 1, p.replacement, p.g)

\* a loop of replace calls over the table from its k-th entry on
RECURSIVE ApplyFrom(_, _, _)
ApplyFrom(table, k, s) ==
  IF k > Len(table) THEN s ELSE ApplyFrom(table, k + 1, Replace(table[k], s))

\* faulty variant: no pattern is applied
applyNoPatterns(s) == s

\* the loop over this.patterns
ApplyPatterns(s) == ApplyFrom(patterns, 1, s)

(***************************************************************************)
(* FilenameNormalizer.createIdentifier                                     *)
(***************************************************************************)
createIdentifier(origin, normalizedPath) ==
  origin \o ApplyFrom(identifierPatterns, 1, normalizedPath)

(***************************************************************************)
(* new URL(url): the part of the URL parser the normalizer relies on.      *)
(* A URL is scheme "://" host [path] ["?" query]; anything else throws.    *)
(***************************************************************************)
S_https == <<"h", "t", "t", "p", "s", ":", "/", "/">>

S_http == <<"h", "t", "t", "p", ":", "/", "/">>

S_unknown == <<"u", "n", "k", "n", "o", "w", "n">>

\* the length of the scheme and "//", 0 when the URL has none
SchemeLen(url) ==
  IF LitAtCS(url, 1, S_https) THEN Len(S_https)
  ELSE IF LitAtCS(url, 1, S_http) THEN Len(S_http)
  ELSE 0

\* the text from a to the end; a search of "?" alone is the empty string
SearchFrom(url, a) == IF a >= Len(url) THEN <<>> ELSE SubSeq(url, a, Len(url))

\* the path is the pl characters after the host; an empty path is "/"
ParsedParts(url, sl, hl, pl) ==
  [ok       |-> TRUE,
   origin   |-> SubSeq(url, 1, sl + hl),
   host     |-> SubSeq(url, sl + 1, sl + hl),
   pathname |-> IF pl = 0 THEN <<"/">> ELSE SubSeq(url, sl + hl + 1, sl + hl + pl),
   search   |-> SearchFrom(url, sl + hl + pl + 1)]

\* the host is the hl characters after the scheme
ParseHost(url, sl, hl) ==
  IF sl = 0 \/ hl = 0 THEN [ok |-> FALSE]
  ELSE ParsedParts(url, sl, hl, RunUntil({"?"}, url, sl + hl + 1))

ParseScheme(url, sl) == ParseHost(url, sl, RunUntil({"/", "?"}, url, sl + 1))

ParseURL(url) == ParseScheme(url, SchemeLen(url))

\* pathname.split('/').pop(): the text after the last slash
LastSegment(s) ==
  SubSeq(s,
         CHOOSE i \in 1..(Len(s) + 1) :
           /\ \A k \in i..Len(s) : s[k] # "/"
           /\ i = 1 \/ s[i - 1] = "/",
         Len(s))

(***************************************************************************)
(* FilenameNormalizer.normalize                                            *)
(***************************************************************************)
\* the object returned from the try block
Normalized(url, parsed, pathname, search) ==
  [original   |-> url,
   normalized |-> parsed.origin \o pathname \o search,
   identifier |-> createIdentifier(parsed.origin, pathname),
   host       |-> parsed.host,
   pathname   |-> pathname,
   filename   |-> LastSegment(pathname)]

\* faulty variant: the patterns are applied to the string that failed to
\* parse
UnparsedRewritten(url) ==
  [original   |-> url,
   normalized |-> ApplyPatterns(url),
   identifier |-> ApplyPatterns(url),
   host       |-> S_unknown,
   pathname   |-> ApplyPatterns(url),
   filename   |-> ApplyPatterns(url)]

\* the object returned from the catch block
Unparsed(url) ==
  [original   |-> url,
   normalized |-> url,
   identifier |-> url,
   host       |-> S_unknown,
   pathname   |-> url,
   filename   |-> url]

normalizeParsed(url, parsed) ==
  IF parsed.ok
    THEN Normalized(url, parsed, ApplyPatterns(parsed.pathname),
                    ApplyPatterns(parsed.search))
    ELSE Unparsed(url)

normalize(url) == normalizeParsed(url, ParseURL(url))

(***************************************************************************)
(* Storage: the metadata object this.db, the metadata file uc-mon.json     *)
(* and the content files scripts/<versionId>.js.                           *)
(*                                                                         *)
(* A value that may be null or undefined is a sequence of length 0 or 1.   *)
(* A JavaScript object used as a map is a function; a lookup of a key the  *)
(* object does not own falls back to Object.prototype.                     *)
(***************************************************************************)
EmptyMap == [k \in {} |-> k]

MapPut(m, k, v) == [x \in DOMAIN m \cup {k} |-> IF x = k THEN v ELSE m[x]]

MapDel(m, ks) == [x \in DOMAIN m \ ks |-> m[x]]

\* property names every plain object inherits from Object.prototype
ObjectPrototypeKeys ==
  {<<"c", "o", "n", "s", "t", "r", "u", "c", "t", "o", "r">>,
   <<"_", "_", "p", "r", "o", "t", "o", "_", "_">>}

\* the id read from an inherited value: target.id is undefined
UndefinedId == 0

\* loadDb: the empty, well-formed database
EmptyDb ==
  [targets        |-> EmptyMap,
   scans          |-> <<>>,
   scripts        |-> EmptyMap,
   scriptVersions |-> EmptyMap,
   nextId         |-> [target |-> 1, scan |-> 1, script |-> 1, version |-> 1]]

NoFile == [kind |-> "none"]

loadDb(file) == IF file.kind = "json" THEN file.db ELSE EmptyDb

\* faulty variant: nothing is written
saveNothing(d) == NoFile

\* saveDb: the whole of this.db is written to uc-mon.json
saveDb(d) == [kind |-> "json", db |-> d]

\* this.db.targets[domain]
targetsGet(d, domain) ==
  IF domain \in DOMAIN d.targets THEN <<d.targets[domain]>>
  ELSE IF domain \in ObjectPrototypeKeys
    THEN <<[id |-> UndefinedId, inherited |-> TRUE]>>
  ELSE <<>>

\* the target record getOrCreateTarget creates
newTarget(d, domain, t) ==
  [id |-> d.nextId.target, domain |-> domain, createdAt |-> t, lastScan |-> <<>>]

getOrCreateTarget(d, domain, t) ==
  IF targetsGet(d, domain) = <<>>
    THEN [db     |-> [d EXCEPT !.targets = MapPut(@, domain, newTarget(d, domain, t)),
                               !.nextId.target = @ + 1],
          target |-> newTarget(d, domain, t),
          saved  |-> TRUE]
    ELSE [db |-> d, target |-> targetsGet(d, domain)[1], saved |-> FALSE]

\* faulty variant: the id of a scan is its position in the list
createScanByPosition(d, targetId, url, scriptCount, totalSize, t) ==
  [db |-> [d EXCEPT
             !.nextId.scan = @ + 1,
             !.scans = Append(@, [id          |-> Len(d.scans) + 1,
                                  targetId    |-> targetId,
                                  url         |-> url,
                                  timestamp   |-> t,
                                  scriptCount |-> scriptCount,
                                  totalSize   |-> totalSize]),
             !.targets = [dom \in DOMAIN @ |->
                            IF @[dom].id = targetId
                              THEN [@[dom] EXCEPT !.lastScan = <<t>>]
                              ELSE @[dom]]],
   scanId |-> Len(d.scans) + 1]

createScan(d, targetId, url, scriptCount, totalSize, t) ==
  [db |-> [d EXCEPT
             !.nextId.scan = @ + 1,
             !.scans = Append(@, [id          |-> d.nextId.scan,
                                  targetId    |-> targetId,
                                  url         |-> url,
                                  timestamp   |-> t,
                                  scriptCount |-> scriptCount,
                                  totalSize   |-> totalSize]),
             !.targets = [dom \in DOMAIN @ |->
                            IF @[dom].id = targetId
                              THEN [@[dom] EXCEPT !.lastScan = <<t>>]
                              ELSE @[dom]]],
   scanId |-> d.nextId.scan]

\* faulty variant: a digest that only depends on the length of the content
hashLength(content) == <<"sha256", Len(content)>>

\* createHash('sha256').update(content).digest('hex'): the digest stands
\* for the content it was computed from; distinct contents, distinct digests
hashContent(content) == <<"sha256", content>>

\* faulty variant: a key without the target id
scriptKeyOfIdentifier(targetId, identifier) == <<UndefinedId, identifier>>

\* `${targetId}:${normalizedInfo.identifier}`
scriptKey(targetId, identifier) == <<targetId, identifier>>

\* faulty variant: every Version is stored in the same content file
contentFileShared(versionId) == <<"scripts", "latest", ".js">>

\* join(this.scriptsDir, `${versionId}.js`)
contentFileOf(versionId) == <<"scripts", versionId, ".js">>

\* this.db.scriptVersions[versionKey] || []
versionsOf(d, scriptId) ==
  IF scriptId \in DOMAIN d.scriptVersions THEN d.scriptVersions[scriptId] ELSE <<>>

\* the first index of versions whose element has the value val in field f
\* (0 when there is none)
firstIndex(versions, f, val) ==
  IF \A i \in DOMAIN versions : versions[i][f] # val THEN 0
  ELSE CHOOSE i \in DOMAIN versions :
         /\ versions[i][f] = val
         /\ \A j \in 1..(i - 1) : versions[j][f] # val

\* faulty variant: a find that never finds
findNothing(versions, contentHash) == <<>>

\* versions.find(v => v.contentHash === contentHash)
findVersion(versions, contentHash) ==
  IF firstIndex(versions, "contentHash", contentHash) = 0 THEN <<>>
  ELSE <<versions[firstIndex(versions, "contentHash", contentHash)]>>

\* faulty variant: a known script record is left as it is
scriptRecordUntouched(d, key, targetId, scriptData, normalizedInfo, t) ==
  IF key \notin DOMAIN d.scripts
    THEN [id            |-> d.nextId.script,
          targetId      |-> targetId,
          url           |-> scriptData.url,
          normalizedUrl |-> normalizedInfo.normalized,
          identifier    |-> normalizedInfo.identifier,
          baseName      |-> normalizedInfo.filename,
          firstSeen     |-> t,
          lastSeen      |-> t]
    ELSE d.scripts[key]

\* storeScript, "Get or create script record": the record
scriptRecord(d, key, targetId, scriptData, normalizedInfo, t) ==
  IF key \notin DOMAIN d.scripts
    THEN [id            |-> d.nextId.script,
          targetId      |-> targetId,
          url           |-> scriptData.url,
          normalizedUrl |-> normalizedInfo.normalized,
          identifier    |-> normalizedInfo.identifier,
          baseName      |-> normalizedInfo.filename,
          firstSeen     |-> t,
          lastSeen      |-> t]
    ELSE [d.scripts[key] EXCEPT !.lastSeen = t]

\* storeScript, "Get or create script record": the database
putScript(d, key, script) ==
  [d EXCEPT !.scripts = MapPut(@, key, script),
            !.nextId.script = IF key \in DOMAIN d.scripts THEN @ ELSE @ + 1]

\* the version record storeScript pushes
versionRecord(versionId, scriptId, scanId, contentHash, scriptData, t) ==
  [id          |-> versionId,
   scriptId    |-> scriptId,
   scanId      |-> scanId,
   contentHash |-> contentHash,
   contentFile |-> contentFileOf(versionId),
   size        |-> scriptData.size,
   url         |-> scriptData.url,
   timestamp   |-> t]

\* faulty variant: a Version that is observed again is stamped with the
\* scan that observed it
storeVersionRestamped(d, fs, scanId, scriptData, t, script, isNewScript, contentHash, existingVersion) ==
  IF existingVersion = <<>>
    THEN [db    |-> [d EXCEPT
                       !.nextId.version = @ + 1,
                       !.scriptVersions =
                          MapPut(@, script.id,
                                 Append(versionsOf(d, script.id),
                                        versionRecord(d.nextId.version, script.id,
                                                      scanId, contentHash,
                                                      scriptData, t)))],
          files |-> MapPut(fs, contentFileOf(d.nextId.version), scriptData.content),
          ret   |-> [scriptId     |-> script.id,
                     versionId    |-> d.nextId.version,
                     isNewScript  |-> isNewScript,
                     isNewVersion |-> TRUE,
                     contentHash  |-> contentHash]]
    ELSE [db    |-> [d EXCEPT !.scriptVersions =
                                 MapPut(@, script.id,
                                        [i \in DOMAIN versionsOf(d, script.id) |->
                                           IF versionsOf(d, script.id)[i].id
                                                = existingVersion[1].id
                                             THEN [versionsOf(d, script.id)[i]
                                                     EXCEPT !.scanId = scanId]
                                             ELSE versionsOf(d, script.id)[i]])],
          files |-> fs,
          ret   |-> [scriptId     |-> script.id,
                     versionId    |-> existingVersion[1].id,
                     isNewScript  |-> isNewScript,
                     isNewVersion |-> FALSE,
                     contentHash  |-> contentHash]]

\* storeScript from "const existingVersion = ..." on
storeVersion(d, fs, scanId, scriptData, t, script, isNewScript, contentHash, existingVersion) ==
  IF existingVersion = <<>>
    THEN [db    |-> [d EXCEPT
                       !.nextId.version = @ + 1,
                       !.scriptVersions =
                          MapPut(@, script.id,
                                 Append(versionsOf(d, script.id),
                                        versionRecord(d.nextId.version, script.id,
                                                      scanId, contentHash,
                                                      scriptData, t)))],
          files |-> MapPut(fs, contentFileOf(d.nextId.version), scriptData.content),
          ret   |-> [scriptId     |-> script.id,
                     versionId    |-> d.nextId.version,
                     isNewScript  |-> isNewScript,
                     isNewVersion |-> TRUE,
                     contentHash  |-> contentHash]]
    ELSE [db    |-> [d EXCEPT !.scriptVersions =
                                 MapPut(@, script.id, versionsOf(d, script.id))],
          files |-> fs,
          ret   |-> [scriptId     |-> script.id,
                     versionId    |-> existingVersion[1].id,
                     isNewScript  |-> isNewScript,
                     isNewVersion |-> FALSE,
                     contentHash  |-> contentHash]]

\* faulty variant: every store pushes a version
storeContentAnew(d, fs, scanId, scriptData, t, script, isNewScript, contentHash) ==
  storeVersion(d, fs, scanId, scriptData, t, script, isNewScript, contentHash, <<>>)

\* storeScript from "Check if this content version already exists" on;
\* d already holds the script record
storeContent(d, fs, scanId, scriptData, t, script, isNewScript, contentHash) ==
  storeVersion(d, fs, scanId, scriptData, t, script, isNewScript, contentHash,
               findVersion(versionsOf(d, script.id), contentHash))

\* storeScript once the script record is known
storeRecord(d, fs, scanId, scriptData, t, key, script) ==
  storeContent(putScript(d, key, script), fs, scanId, scriptData, t, script,
               key \notin DOMAIN d.scripts, hashContent(scriptData.content))

\* storeScript once the script key is known
storeKeyed(d, fs, targetId, scanId, scriptData, normalizedInfo, t, key) ==
  storeRecord(d, fs, scanId, scriptData, t, key,
              scriptRecord(d, key, targetId, scriptData, normalizedInfo, t))

storeScript(d, fs, targetId, scanId, scriptData, normalizedInfo, t) ==
  storeKeyed(d, fs, targetId, scanId, scriptData, normalizedInfo, t,
             scriptKey(targetId, normalizedInfo.identifier))

\* [...versions].sort((a, b) => b.id - a.id): insertion sort, stable
RECURSIVE insertById(_, _)
insertById(sorted, v) ==
  IF sorted = <<>> THEN <<v>>
  ELSE IF Head(sorted).id >= v.id THEN <<Head(sorted)>> \o insertById(Tail(sorted), v)
  ELSE <<v>> \o sorted

RECURSIVE sortByIdDesc(_)
sortByIdDesc(versions) ==
  IF versions = <<>> THEN <<>>
  ELSE insertById(sortByIdDesc(SubSeq(versions, 1, Len(versions) - 1)),
                  versions[Len(versions)])

\* sortedVersions.findIndex(v => v.id === currentVersionId), 1-based; 0 for -1
findIndexById(sortedVersions, versionId) ==
  firstIndex(sortedVersions, "id", versionId)

\* getPreviousVersion from "if (prevVersion && ...)" on
readVersion(fs, prevVersion) ==
  IF prevVersion.contentFile \in DOMAIN fs
    THEN <<[version |-> prevVersion, content |-> fs[prevVersion.contentFile]]>>
    ELSE <<>>

\* faulty variant: the oldest version instead of the next older one
previousOldest(fs, sortedVersions, currentIndex) ==
  IF currentIndex = 0 \/ currentIndex = Len(sortedVersions) THEN <<>>
  ELSE readVersion(fs, sortedVersions[Len(sortedVersions)])

\* getPreviousVersion from "if (currentIndex === -1 || ...)" on
previousAt(fs, sortedVersions, currentIndex) ==
  IF currentIndex = 0 \/ currentIndex = Len(sortedVersions) THEN <<>>
  ELSE readVersion(fs, sortedVersions[currentIndex + 1])

\* getPreviousVersion once the versions are sorted
previousIn(fs, sortedVersions, currentVersionId) ==
  previousAt(fs, sortedVersions, findIndexById(sortedVersions, currentVersionId))

getPreviousVersion(d, fs, scriptId, currentVersionId) ==
  previousIn(fs, sortByIdDesc(versionsOf(d, scriptId)), currentVersionId)

\* the content files of the versions of the scripts sids
contentFilesOf(d, sids) ==
  UNION {{versionsOf(d, sid)[i].contentFile : i \in DOMAIN versionsOf(d, sid)} :
           sid \in sids}

\* faulty variant: the script records go, their versions and files stay
removeScriptsOnly(d, fs, keys) ==
  [db |-> [d EXCEPT !.scripts = MapDel(@, keys)], files |-> fs]

\* removeTarget, the loop over this.db.scripts: keys are the keys of the
\* scripts whose targetId is the target's
removeScripts(d, fs, keys) ==
  [db    |-> [d EXCEPT !.scriptVersions = MapDel(@, {d.scripts[k].id : k \in keys}),
                       !.scripts = MapDel(@, keys)],
   files |-> MapDel(fs, contentFilesOf(d, {d.scripts[k].id : k \in keys}))]

\* removeTarget from "const targetId = target.id" on
removeById(domain, targetId, removed) ==
  [db    |-> [removed.db EXCEPT
                !.scans = SelectSeq(@, LAMBDA sc : sc.targetId # targetId),
                !.targets = MapDel(@, {domain})],
   files |-> removed.files,
   ret   |-> TRUE,
   saved |-> TRUE]

removeFound(d, fs, domain, targetId) ==
  removeById(domain, targetId,
             removeScripts(d, fs, {k \in DOMAIN d.scripts :
                                     d.scripts[k].targetId = targetId}))

removeTarget(d, fs, domain) ==
  IF targetsGet(d, domain) = <<>>
    THEN [db |-> d, files |-> fs, ret |-> FALSE, saved |-> FALSE]
    ELSE removeFound(d, fs, domain, targetsGet(d, domain)[1].id)

(***************************************************************************)
(* The collaborators of a scan: the extractor and the differ.              *)
(***************************************************************************)
\* Differ.diff(oldContent, newContent): the result stands for the two
\* texts it was computed from
diff(oldContent, newContent) ==
  [stats   |-> <<"stats", oldContent, newContent>>,
   changes |-> [added   |-> <<"added", oldContent, newContent>>,
                removed |-> <<"removed", oldContent, newContent>>]]

\* UCMon.normalizeUrl
normalizeUrl(url) ==
  IF LitAtCS(url, 1, S_http) \/ LitAtCS(url, 1, S_https) THEN url
  ELSE S_https \o url

(***************************************************************************)
(* Inputs.  Two monitored sites; script URLs on a CDN, three of which are  *)
(* builds of main.js and two of which are numbered chunks; three contents. *)
(***************************************************************************)
A_COM == <<"a", ".", "c", "o", "m">>

B_COM == <<"b", ".", "c", "o", "m">>

\* the arguments of scan(): with and without a scheme
TargetUrls == {A_COM, S_https \o B_COM}

CONSTRUCTOR == <<"c", "o", "n", "s", "t", "r", "u", "c", "t", "o", "r">>

\* the domains removeTarget is called with
RemoveDomains == {A_COM, B_COM, CONSTRUCTOR}

CDN == S_https \o <<"c", "d", "n", ".", "i", "o", "/">>

U_main1 ==
  CDN \o
  <<"m", "a", "i", "n", ".", "a", "b", "c", "1", "2", "3", "4", "5", ".",
    "j", "s">>

U_main2 ==
  CDN \o
  <<"m", "a", "i", "n", ".", "d", "e", "f", "6", "7", "8", "9", "0", ".",
    "j", "s">>

U_main3 ==
  CDN \o
  <<"m", "a", "i", "n", ".", "0", "f", "1", "e", "2", "d", "3", "c", ".",
    "j", "s">>

U_chunk0 ==
  CDN \o
  <<"0", ".", "j", "s">>

U_chunk1 ==
  CDN \o
  <<"1", ".", "j", "s">>

ScriptUrls == {U_main1, U_main2, U_main3, U_chunk0, U_chunk1}

CX == <<"X">>

CY == <<"Y">>

CZ == <<"Z">>

\* one element of extraction.scripts: {url, content, size: content.length}
Script(url, content) == [url |-> url, content |-> content, size |-> Len(content)]

\* the script lists an extraction may return (the URLs of one list are
\* distinct)
Extractions ==
  { <<Script(U_main1, CX)>>,
    <<Script(U_main2, CX)>>,
    <<Script(U_main3, CY)>>,
    <<Script(U_main1, CZ)>>,
    <<Script(U_chunk0, CX), Script(U_chunk1, CY)>> }

\* normalize is a pure function: its values on the script URLs
NormalizedInfo == [u \in ScriptUrls |-> normalize(u)]

RECURSIVE SumSizes(_)
SumSizes(scripts) ==
  IF scripts = <<>> THEN 0 ELSE Head(scripts).size + SumSizes(Tail(scripts))

\* operations start while the clock is below MaxTime
MaxTime == 5

(***************************************************************************)
(* Inputs of the normalizer: for each kind of volatile token of the        *)
(* pattern table, URLs that differ in that token only.                     *)
(***************************************************************************)
JS == CDN \o <<"j", "s", "/">>

\* a token kind: the text before the token, the tokens, the text after it
TokenKinds ==
  {\* hex digest
   [pre    |-> JS \o <<"m", "a", "i", "n", ".">>,
    tokens |-> {<<"a", "b", "c", "1", "2", "3", "4", "5">>,
                <<"d", "e", "f", "6", "7", "8", "9", "0">>,
                <<"0", "f", "1", "e", "2", "d", "3", "c">>,
                <<"1", "a", "2", "b", "3", "c", "4", "d", "5", "e", "6", "f",
                  "7", "a", "8", "b", "9", "c", "0", "d">>},
    suf    |-> L_dotjs],
   \* dotted content hash
   [pre    |-> JS \o <<"b", "u", "n", "d", "l", "e", ".">>,
    tokens |-> {<<"a", "1", "b", "2", "c", "3">>,
                <<"d", "4", "e", "5", "f", "6">>,
                <<"0", "a", "1", "b", "2", "c", "3">>,
                <<"f", "0", "0", "b", "a", "4", "7">>},
    suf    |-> L_dotjs],
   \* chunk tag
   [pre    |-> JS \o <<"c", "h", "u", "n", "k", ".">>,
    tokens |-> {<<"1">>,
                <<"1", "2">>,
                <<"3", "4", "5">>,
                <<"7", "8", "9", "0">>},
    suf    |-> L_dotjs],
   \* numeric chunk file
   [pre    |-> JS,
    tokens |-> {<<"0">>,
                <<"1">>,
                <<"4", "5">>,
                <<"1", "2", "3">>},
    suf    |-> L_dotjs],
   \* semantic version
   [pre    |-> JS \o <<"l", "i", "b", "-">>,
    tokens |-> {<<"1", ".", "2", ".", "3">>,
                <<"1", ".", "2", ".", "4">>,
                <<"v", "2", ".", "0", ".", "1", "0">>,
                <<"1", "0", ".", "0", ".", "1">>},
    suf    |-> L_dotjs],
   \* epoch-like integer
   [pre    |-> JS \o <<"a", "p", "p", ".">>,
    tokens |-> {<<"1", "7", "0", "4", "0", "6", "7", "2", "0", "0">>,
                <<"1", "7", "0", "4", "1", "5", "3", "6", "0", "0">>,
                <<"1", "6", "0", "9", "4", "5", "9", "2", "0", "0">>,
                <<"1", "7", "0", "4", "0", "6", "7", "2", "0", "0", "0", "0",
                  "0">>},
    suf    |-> L_dotjs],
   \* UUID
   [pre    |-> JS \o <<"a", "p", "p", ".">>,
    tokens |-> {<<"1", "2", "3", "e", "4", "5", "6", "7", "-", "e", "8", "9",
                  "b", "-", "1", "2", "d", "3", "-", "a",
                  "4", "5", "6", "-", "4", "2", "6", "6",
                  "1", "4", "1", "7", "4", "0", "0", "0">>,
                <<"5", "5", "0", "e", "8", "4", "0", "0", "-", "e", "2", "9",
                  "b", "-", "4", "1", "d", "4", "-", "a",
                  "7", "1", "6", "-", "4", "4", "6", "6",
                  "5", "5", "4", "4", "0", "0", "0", "0">>,
                <<"1", "2", "3", "e", "4", "5", "6", "7", "-", "e", "8", "9",
                  "b", "-", "1", "2", "d", "3", "-", "a",
                  "4", "5", "6", "-", "4", "2", "6", "6",
                  "1", "4", "1", "7", "4", "0", "0", "1">>},
    suf    |-> L_dotjs],
   \* build tag
   [pre    |-> JS \o <<"a", "p", "p", ".", "b", "u", "i", "l", "d">>,
    tokens |-> {<<"1">>,
                <<"2", "3">>,
                <<"4", "5", "6">>,
                <<"7", "8", "9", "0">>},
    suf    |-> L_dotjs],
   \* runtime chunk name
   [pre    |-> JS \o <<"r", "u", "n", "t", "i", "m", "e", "~">>,
    tokens |-> {<<"m", "a", "i", "n">>,
                <<"v", "e", "n", "d", "o", "r">>,
                <<"a", "p", "p">>,
                <<"p", "o", "l", "y", "f", "i", "l", "l", "s">>},
    suf    |-> L_dotjs]}

\* the pairs of URLs that differ in one volatile token only
UrlPairs ==
  UNION {{<<k.pre \o t1 \o k.suf, k.pre \o t2 \o k.suf>> :
            t1 \in k.tokens, t2 \in k.tokens} : k \in TokenKinds}

(***************************************************************************)
(* State.                                                                  *)
(***************************************************************************)
VARIABLES
  db,        \* Storage.db of the open store
  disk,      \* the metadata file uc-mon.json
  files,     \* the content files, by path
  now,       \* the clock, in milliseconds
  pc,        \* where UCMon.scan is: "idle", "extract", "store"
  cur,       \* the locals of the running scan
  results,   \* the results object the running scan builds
  diffCalls, \* the calls of Differ.diff made by the running scan
  call,      \* the last Storage call and what it returned
  storeLog,  \* every storeScript call so far, with what it returned
  nq,        \* a pure function on its own: the arguments given (normalize:
             \* a pair of URLs; diff: old text, new text, options.format)
  nr,        \* a pure function on its own: what it has computed so far
  mon        \* the monitor command: its timer and the scans it has started,
             \* each with its own Storage instance

vars ==
  <<db, disk, files, now, pc, cur, results, diffCalls, call, storeLog, nq, nr,
    mon>>

storeVars ==
  <<db, disk, files, now, pc, cur, results, diffCalls, call, storeLog, mon>>

NoCur == [url |-> <<>>, domain |-> <<>>, target |-> <<>>, scanId |-> <<>>,
          queue |-> <<>>]

NoResults == [scripts |-> <<>>, changes |-> <<>>]

NoCall == [op |-> "none"]

\* no monitor command is running
NoMon == [timer |-> "unset", scans |-> <<>>, acks |-> <<>>]

StoreInit ==
  /\ db = EmptyDb
  /\ disk = NoFile
  /\ files = EmptyMap
  /\ now = 0
  /\ pc = "idle"
  /\ cur = NoCur
  /\ results = NoResults
  /\ diffCalls = <<>>
  /\ call = NoCall
  /\ storeLog = <<>>
  /\ mon = NoMon

Init ==
  /\ StoreInit
  /\ nq = <<>>
  /\ nr = <<>>

(***************************************************************************)
(* UCMon.scan, step by step.  Every step that reads the clock finds it one *)
(* millisecond later.                                                      *)
(***************************************************************************)
\* new UCMon() opens the store; scan() up to the await of the extraction
ScanBegin(targetUrl) ==
  /\ pc = "idle"
  /\ \E url \in {normalizeUrl(targetUrl)} :
       \E domain \in {ParseURL(url).host} :
         \E g \in {getOrCreateTarget(loadDb(disk), domain, now + 1)} :
           /\ db' = g.db
           /\ disk' = IF g.saved THEN saveDb(g.db) ELSE disk
           /\ cur' = [url |-> url, domain |-> domain, target |-> <<g.target>>,
                      scanId |-> <<>>, queue |-> <<>>]
           /\ call' = [op |-> "getOrCreateTarget", domain |-> domain,
                       ret |-> g.target]
  /\ now' = now + 1
  /\ pc' = "extract"
  /\ results' = NoResults
  /\ diffCalls' = <<>>
  /\ UNCHANGED <<files, storeLog, nq, nr, mon>>

\* a scan is started while the clock is below MaxTime
ScanStart(targetUrl) == now < MaxTime /\ ScanBegin(targetUrl)

\* the extraction throws: scan() rejects, nothing else is done
ExtractFail ==
  /\ pc = "extract"
  /\ pc' = "idle"
  /\ cur' = NoCur
  /\ UNCHANGED <<db, disk, files, now, results, diffCalls, call, storeLog,
                 nq, nr, mon>>

\* the extraction returns its scripts: createScan, then the results object
ExtractOk(scripts) ==
  /\ pc = "extract"
  /\ \E c \in {createScan(db, cur.target[1].id, cur.url, Len(scripts),
                          SumSizes(scripts), now)} :
       /\ db' = c.db
       /\ disk' = saveDb(c.db)
       /\ cur' = [cur EXCEPT !.scanId = <<c.scanId>>, !.queue = scripts]
       /\ results' = [target  |-> cur.domain,
                      url     |-> cur.url,
                      scanId  |-> c.scanId,
                      stats   |-> [totalScripts |-> Len(scripts),
                                   totalSize |-> SumSizes(scripts)],
                      scripts |-> <<>>,
                      changes |-> <<>>]
       /\ call' = [op |-> "createScan", targetId |-> cur.target[1].id,
                   ret |-> c.scanId]
  /\ pc' = "store"
  /\ UNCHANGED <<files, now, diffCalls, storeLog, nq, nr, mon>>

\* the per-script result of the loop body; diffed is <<>> or <<diff result>>
scriptResult(script, normalizedInfo, ret, diffed) ==
  [url           |-> script.url,
   normalizedUrl |-> normalizedInfo.normalized,
   identifier    |-> normalizedInfo.identifier,
   size          |-> script.size,
   isNew         |-> ret.isNewScript,
   hasNewVersion |-> ret.isNewVersion,
   contentHash   |-> ret.contentHash,
   diff          |-> IF diffed = <<>> THEN <<>> ELSE <<diffed[1].stats>>]

\* the entry pushed to results.changes
changeEntry(script, normalizedInfo, d) ==
  [script  |-> normalizedInfo.filename,
   url     |-> script.url,
   stats   |-> d.stats,
   added   |-> d.changes.added,
   removed |-> d.changes.removed]

\* faulty variant: no version is ever diffed
neverDiff(ret) == FALSE

\* if (stored.isNewVersion && !stored.isNewScript)
shouldDiff(ret) == ret.isNewVersion /\ ~ret.isNewScript

\* the result of Differ.diff when there is a previous version to diff with
diffWith(previousVersion, script) ==
  IF previousVersion = <<>> THEN <<>>
  ELSE <<diff(previousVersion[1].content, script.content)>>

\* one iteration of the loop over extraction.scripts
ScanScript ==
  /\ pc = "store"
  /\ cur.queue # <<>>
  /\ \E script \in {Head(cur.queue)} :
       \E normalizedInfo \in {NormalizedInfo[script.url]} :
         \E stored \in {storeScript(db, files, cur.target[1].id, cur.scanId[1],
                                    script, normalizedInfo, now + 1)} :
           \E previousVersion \in
                {IF shouldDiff(stored.ret)
                   THEN getPreviousVersion(stored.db, stored.files,
                                           stored.ret.scriptId,
                                           stored.ret.versionId)
                   ELSE <<>>} :
             \E diffed \in {diffWith(previousVersion, script)} :
               /\ db' = stored.db
               /\ files' = stored.files
               /\ disk' = saveDb(stored.db)
               /\ results' =
                    [results EXCEPT
                       !.scripts = Append(@, scriptResult(script, normalizedInfo,
                                                          stored.ret, diffed)),
                       !.changes = IF diffed = <<>> THEN @
                                   ELSE Append(@, changeEntry(script, normalizedInfo,
                                                              diffed[1]))]
               /\ diffCalls' =
                    IF diffed = <<>> THEN diffCalls
                    ELSE Append(diffCalls, [old |-> previousVersion[1].content,
                                            new |-> script.content])
               /\ call' = [op |-> "storeScript", ret |-> stored.ret]
               /\ storeLog' =
                    Append(storeLog,
                           [targetId   |-> cur.target[1].id,
                            scanId     |-> cur.scanId[1],
                            url        |-> script.url,
                            identifier |-> normalizedInfo.identifier,
                            content    |-> script.content,
                            ret        |-> stored.ret])
  /\ now' = now + 1
  /\ cur' = [cur EXCEPT !.queue = Tail(@)]
  /\ UNCHANGED <<pc, nq, nr, mon>>

\* the loop is over: scan() returns its results and the caller closes the
\* store (Storage.close saves the database once more)
ScanFinish ==
  /\ pc = "store"
  /\ cur.queue = <<>>
  /\ pc' = "idle"
  /\ cur' = NoCur
  /\ results' = NoResults
  /\ diffCalls' = <<>>
  /\ disk' = saveDb(db)
  /\ UNCHANGED <<db, files, now, call, storeLog, nq, nr, mon>>

(***************************************************************************)
(* UCMon.removeTarget on a freshly opened store.                           *)
(***************************************************************************)
RemoveTarget(domain) ==
  /\ pc = "idle"
  /\ now < MaxTime
  /\ \E r \in {removeTarget(loadDb(disk), files, domain)} :
       /\ db' = r.db
       /\ files' = r.files
       /\ disk' = IF r.saved THEN saveDb(r.db) ELSE disk
       /\ call' = [op |-> "removeTarget", domain |-> domain,
                   known |-> domain \in DOMAIN loadDb(disk).targets,
                   ret |-> r.ret]
  /\ now' = now + 1
  /\ UNCHANGED <<pc, cur, results, diffCalls, storeLog, nq, nr, mon>>

Next ==
  \/ \E u \in TargetUrls : ScanStart(u)
  \/ ExtractFail
  \/ \E e \in Extractions : ExtractOk(e)
  \/ ScanScript
  \/ ScanFinish
  \/ \E dom \in RemoveDomains : RemoveTarget(dom)

Spec == Init /\ [][Next]_vars

(***************************************************************************)
(* The normalizer on its own: normalize applied to a pair of URLs, or      *)
(* twice to a string that is no URL.                                       *)
(***************************************************************************)
\* strings new URL() rejects: no scheme, or a scheme and no host
InvalidUrls ==
  {<<>>,
   <<"m", "a", "i", "n", ".", "a", "b", "c", "1", "2", "3", "4", "5", ".",
     "j", "s">>,
   <<"/", "j", "s", "/", "c", "h", "u", "n", "k", ".", "1", "2", ".", "j",
     "s">>,
   <<"/", "/", "c", "d", "n", ".", "i", "o", "/", "0", ".", "j", "s">>,
   S_https,
   S_https \o <<"?", "v", "=", "1", ".", "2", ".", "3">>}

NormInit ==
  /\ StoreInit
  /\ nq \in UrlPairs \cup {<<u, u>> : u \in InvalidUrls}
  /\ nr = <<>>

NormalizePair ==
  /\ nr = <<>>
  /\ nr' = <<normalize(nq[1]), normalize(nq[2])>>
  /\ UNCHANGED <<nq, storeVars>>

NormNext == NormalizePair

SpecNorm == NormInit /\ [][NormNext]_vars

(***************************************************************************)
(* The Storage class on its own: a store opened on whatever uc-mon.json    *)
(* holds, then driven through its methods in any order.  Every call moves  *)
(* the clock on; the timestamp a storeScript call reads is the time at its *)
(* start or at its end, so that two calls in a row may read the same       *)
(* millisecond.                                                            *)
(***************************************************************************)
\* what uc-mon.json may be when the store is opened: missing, text that
\* JSON.parse rejects, a file that cannot be read, the JSON text {}
StartFiles ==
  {NoFile, [kind |-> "garbage"], [kind |-> "unreadable"], saveDb(EmptyMap)}

\* this.db has the properties the methods read
wellFormed(d) == DOMAIN EmptyDb \subseteq DOMAIN d

\* [...versions].sort((a, b) => new Date(b.timestamp) - new Date(a.timestamp)):
\* insertion sort, stable
RECURSIVE insertByTimestamp(_, _)
insertByTimestamp(sorted, v) ==
  IF sorted = <<>> THEN <<v>>
  ELSE IF Head(sorted).timestamp >= v.timestamp
    THEN <<Head(sorted)>> \o insertByTimestamp(Tail(sorted), v)
  ELSE <<v>> \o sorted

RECURSIVE sortByTimestampDesc(_)
sortByTimestampDesc(versions) ==
  IF versions = <<>> THEN <<>>
  ELSE insertByTimestamp(sortByTimestampDesc(SubSeq(versions, 1, Len(versions) - 1)),
                         versions[Len(versions)])

getScriptVersions(d, scriptId) == sortByTimestampDesc(versionsOf(d, scriptId))

\* new Storage(): the constructor loads the database
OpenInit ==
  /\ disk \in StartFiles
  /\ db = loadDb(disk)
  /\ files = EmptyMap
  /\ now = 0
  /\ pc = "idle"
  /\ cur = NoCur
  /\ results = NoResults
  /\ diffCalls = <<>>
  /\ call = NoCall
  /\ storeLog = <<>>
  /\ nq = <<>>
  /\ nr = <<>>
  /\ mon = NoMon

\* a method reads a property of an undefined this.db.targets, .nextId,
\* .scripts or .scriptVersions: it throws a TypeError
StoreThrows ==
  /\ ~wellFormed(db)
  /\ \E op \in {"getOrCreateTarget", "createScan", "storeScript",
                "getScriptVersions", "removeTarget"} :
       call' = [op |-> "TypeError", in |-> op]
  /\ UNCHANGED <<db, disk, files, now, pc, cur, results, diffCalls, storeLog,
                 nq, nr, mon>>

CallGetOrCreateTarget(domain) ==
  /\ wellFormed(db)
  /\ now < MaxTime
  /\ \E g \in {getOrCreateTarget(db, domain, now + 1)} :
       /\ db' = g.db
       /\ disk' = IF g.saved THEN saveDb(g.db) ELSE disk
       /\ call' = [op |-> "getOrCreateTarget", domain |-> domain,
                   ret |-> g.target]
  /\ now' = now + 1
  /\ UNCHANGED <<files, pc, cur, results, diffCalls, storeLog, nq, nr, mon>>

\* createScan for a target of the store, with the counts of an extraction
CallCreateScan(domain, scripts) ==
  /\ wellFormed(db)
  /\ now < MaxTime
  /\ domain \in DOMAIN db.targets
  /\ \E c \in {createScan(db, db.targets[domain].id, S_https \o domain,
                          Len(scripts), SumSizes(scripts), now + 1)} :
       /\ db' = c.db
       /\ disk' = saveDb(c.db)
       /\ call' = [op |-> "createScan", targetId |-> db.targets[domain].id,
                   ret |-> c.scanId]
  /\ now' = now + 1
  /\ UNCHANGED <<files, pc, cur, results, diffCalls, storeLog, nq, nr, mon>>

\* storeScript for a scan of the store and a script of an extraction; new
\* Date() reads t
CallStoreScript(scan, script, t) ==
  /\ wellFormed(db)
  /\ now < MaxTime
  /\ \E stored \in {storeScript(db, files, scan.targetId, scan.id, script,
                                NormalizedInfo[script.url], t)} :
       /\ db' = stored.db
       /\ files' = stored.files
       /\ disk' = saveDb(stored.db)
       /\ call' = [op |-> "storeScript", ret |-> stored.ret]
  /\ now' = now + 1
  /\ UNCHANGED <<pc, cur, results, diffCalls, storeLog, nq, nr, mon>>

CallGetScriptVersions(scriptId) ==
  /\ wellFormed(db)
  /\ now < MaxTime
  /\ call' = [op |-> "getScriptVersions", scriptId |-> scriptId,
              ret |-> getScriptVersions(db, scriptId)]
  /\ now' = now + 1
  /\ UNCHANGED <<db, disk, files, pc, cur, results, diffCalls, storeLog,
                 nq, nr, mon>>

StoreNext ==
  \/ StoreThrows
  \/ \E dom \in RemoveDomains : CallGetOrCreateTarget(dom)
  \/ \E dom \in RemoveDomains : \E e \in Extractions : CallCreateScan(dom, e)
  \/ /\ wellFormed(db)
     /\ \E i \in DOMAIN db.scans : \E e \in Extractions : \E k \in DOMAIN e :
          \E t \in {now, now + 1} : CallStoreScript(db.scans[i], e[k], t)
  \/ /\ wellFormed(db)
     /\ \E sid \in DOMAIN db.scriptVersions : CallGetScriptVersions(sid)
  \/ \E dom \in RemoveDomains : wellFormed(db) /\ RemoveTarget(dom)

SpecStore == OpenInit /\ [][StoreNext]_vars

(***************************************************************************)
(* The Differ.  A text is a string; diffLines compares two texts line by   *)
(* line, a line being a token that ends with its newline (the last token   *)
(* of a text may have none).  The result is one of the shortest edit       *)
(* scripts, as a sequence of parts: runs of unchanged, removed or added    *)
(* lines, the removed lines of a change before the added ones.             *)
(***************************************************************************)
NL == "\n"

\* s.split('\n')
RECURSIVE split(_)
split(s) ==
  IF RunUntil({NL}, s, 1) = Len(s) THEN <<s>>
  ELSE <<SubSeq(s, 1, RunUntil({NL}, s, 1))>>
       \o split(SubSeq(s, RunUntil({NL}, s, 1) + 2, Len(s)))

\* the line tokens of diffLines
RECURSIVE lineTokens(_)
lineTokens(s) ==
  IF s = <<>> THEN <<>>
  ELSE IF RunUntil({NL}, s, 1) = Len(s) THEN <<s>>
  ELSE <<SubSeq(s, 1, RunUntil({NL}, s, 1) + 1)>>
       \o lineTokens(SubSeq(s, RunUntil({NL}, s, 1) + 2, Len(s)))

\* the length of the longest common subsequence of two token sequences
RECURSIVE lcs(_, _)
lcs(a, b) ==
  IF a = <<>> \/ b = <<>> THEN 0
  ELSE IF Head(a) = Head(b) THEN 1 + lcs(Tail(a), Tail(b))
  ELSE IF lcs(Tail(a), b) >= lcs(a, Tail(b)) THEN lcs(Tail(a), b)
  ELSE lcs(a, Tail(b))

\* the number of leading tokens two sequences share
RECURSIVE commonPrefix(_, _)
commonPrefix(a, b) ==
  IF a = <<>> \/ b = <<>> \/ Head(a) # Head(b) THEN 0
  ELSE 1 + commonPrefix(Tail(a), Tail(b))

\* one part of the result: the tokens from..to of seq, joined
RECURSIVE part(_, _, _, _, _)
part(seq, from, to, added, removed) ==
  IF from > to THEN [value |-> <<>>, added |-> added, removed |-> removed]
  ELSE [part(seq, from + 1, to, added, removed) EXCEPT !.value = seq[from] \o @]

\* removing the first i tokens of a and adding the first j of b is the
\* start of a shortest edit script, up to its next unchanged line
isChange(a, b, i, j) ==
  /\ i + j > 0
  /\ \/ i = Len(a) /\ j = Len(b)
     \/ i < Len(a) /\ j < Len(b) /\ a[i + 1] = b[j + 1]
  /\ lcs(SubSeq(a, i + 1, Len(a)), SubSeq(b, j + 1, Len(b))) = lcs(a, b)

\* the shortest such change
nextChange(a, b) ==
  CHOOSE ij \in (0..Len(a)) \X (0..Len(b)) :
    /\ isChange(a, b, ij[1], ij[2])
    /\ \A kl \in (0..Len(a)) \X (0..Len(b)) :
         isChange(a, b, kl[1], kl[2]) => ij[1] + ij[2] <= kl[1] + kl[2]

RECURSIVE diffTokens(_, _)
RECURSIVE diffFrom(_, _, _, _, _)
\* the parts of the first i tokens of a and the first j of b, which are
\* unchanged (same) or removed and added, and then the parts of the rest
diffFrom(a, b, i, j, same) ==
  (IF i > 0 THEN <<part(a, 1, i, FALSE, ~same)>> ELSE <<>>)
  \o (IF j > 0 /\ ~same THEN <<part(b, 1, j, TRUE, FALSE)>> ELSE <<>>)
  \o diffTokens(SubSeq(a, i + 1, Len(a)), SubSeq(b, j + 1, Len(b)))

diffChange(a, b, ij) == diffFrom(a, b, ij[1], ij[2], FALSE)

diffTokens(a, b) ==
  IF a = <<>> /\ b = <<>> THEN <<>>
  ELSE IF commonPrefix(a, b) > 0
    THEN diffFrom(a, b, commonPrefix(a, b), commonPrefix(a, b), TRUE)
  ELSE diffChange(a, b, nextChange(a, b))

\* faulty variant: no line is found unchanged
diffLinesReplaceAll(oldStr, newStr) ==
  diffFrom(lineTokens(oldStr), lineTokens(newStr),
           Len(lineTokens(oldStr)), Len(lineTokens(newStr)), FALSE)

\* diffLines(oldStr, newStr) of the diff package
diffLines(oldStr, newStr) == diffTokens(lineTokens(oldStr), lineTokens(newStr))

\* the branch of the loop of calculateStats a part takes
tagOf(p) ==
  IF p.added THEN "added" ELSE IF p.removed THEN "removed" ELSE "unchanged"

\* the loop of calculateStats: the sum of part.value.split('\n').length - 1
\* over the parts that take the branch tag
RECURSIVE countLines(_, _)
countLines(lineDiff, tag) ==
  IF lineDiff = <<>> THEN 0
  ELSE (IF tagOf(Head(lineDiff)) = tag THEN Len(split(Head(lineDiff).value)) - 1
        ELSE 0)
       + countLines(Tail(lineDiff), tag)

DigitSeq == <<"0", "1", "2", "3", "4", "5", "6", "7", "8", "9">>

\* the decimal digits of a natural number
RECURSIVE decimal(_)
decimal(n) ==
  IF n < 10 THEN <<DigitSeq[n + 1]>>
  ELSE decimal(n \div 10) \o <<DigitSeq[(n % 10) + 1]>>

\* (num / den * 100).toFixed(2): the hundredths nearest to the value, the
\* larger one of two equally near.  (For den below 32 no value lies as
\* close to the middle of two hundredths as the rounding of a double.)
toFixed2(num, den) ==
  decimal(((20000 * num + den) \div (2 * den)) \div 100) \o <<".">>
  \o decimal((((20000 * num + den) \div (2 * den)) \div 10) % 10)
  \o decimal(((20000 * num + den) \div (2 * den)) % 10)

\* the object calculateStats returns
statsOf(additions, deletions, unchanged, totalOld, totalNew) ==
  [additions     |-> additions,
   deletions     |-> deletions,
   unchanged     |-> unchanged,
   totalOld      |-> totalOld,
   totalNew      |-> totalNew,
   changePercent |-> toFixed2(additions + deletions,
                              IF totalOld = 0 THEN 1 ELSE totalOld)]

calculateStats(lineDiff, oldContent, newContent) ==
  statsOf(countLines(lineDiff, "added"), countLines(lineDiff, "removed"),
          countLines(lineDiff, "unchanged"),
          Len(split(oldContent)), Len(split(newContent)))

\* part.value.split('\n').filter(l => l.length > 0)
nonEmptyLinesOf(value) == SelectSeq(split(value), LAMBDA l : l # <<>>)

\* the entries extractChanges pushes for the lines of one part: the
\* counter goes up by step from one line to the next
numbered(lines, lineNumber, step) ==
  [i \in 1..Len(lines) |->
     [lineNumber |-> lineNumber + step * (i - 1), content |-> lines[i]]]

\* the entries of one part, before those of the parts after it
extractStep(tag, lines, lineNumber, rest) ==
  [added   |-> (IF tag = "added" THEN numbered(lines, lineNumber, 1) ELSE <<>>)
               \o rest.added,
   removed |-> (IF tag = "removed" THEN numbered(lines, lineNumber, 0) ELSE <<>>)
               \o rest.removed]

\* the loop of extractChanges from the first part of lineDiff on, the
\* counter being lineNumber
RECURSIVE extractFrom(_, _)
extractFrom(lineDiff, lineNumber) ==
  IF lineDiff = <<>> THEN [added |-> <<>>, removed |-> <<>>]
  ELSE extractStep(tagOf(Head(lineDiff)), nonEmptyLinesOf(Head(lineDiff).value),
                   lineNumber,
                   extractFrom(Tail(lineDiff),
                               IF tagOf(Head(lineDiff)) = "removed" THEN lineNumber
                               ELSE lineNumber
                                    + Len(nonEmptyLinesOf(Head(lineDiff).value))))

extractChanges(lineDiff) == extractFrom(lineDiff, 1)

\* Differ.diff from "const lineDiff = ..." on
diffFormatted(formattedOld, formattedNew, lineDiff) ==
  [lineDiff |-> lineDiff,
   stats    |-> calculateStats(lineDiff, formattedOld, formattedNew),
   changes  |-> extractChanges(lineDiff)]

\* the truncation line of formatForTerminal
TRUNCATED == [color |-> "90", prefix |-> "...", line |-> <<"(", "truncated", ")">>]

\* options.maxLines || 100
DEFAULT_MAX_LINES == 100

maxLinesOf(options) == IF options = 0 THEN DEFAULT_MAX_LINES ELSE options

\* the lines pushed for one part when room more lines may be pushed
formatPart(tag, lines, room) ==
  [i \in 1..Min(room, Len(lines)) |->
     [color  |-> IF tag = "added" THEN "32"
                 ELSE IF tag = "removed" THEN "31" ELSE "0",
      prefix |-> IF tag = "added" THEN "+"
                 ELSE IF tag = "removed" THEN "-" ELSE " ",
      line   |-> lines[i]]]

RECURSIVE formatFrom(_, _, _)
\* the lines pushed for one part, then those of the parts after it
formatThen(pushed, rest, count, maxLines) ==
  pushed \o formatFrom(rest, count + Len(pushed), maxLines)

\* the loop of formatForTerminal from the first part of lineDiff on, count
\* lines being pushed already
formatFrom(lineDiff, count, maxLines) ==
  IF lineDiff = <<>> THEN <<>>
  ELSE IF count >= maxLines THEN <<TRUNCATED>>
  ELSE formatThen(formatPart(tagOf(Head(lineDiff)),
                             nonEmptyLinesOf(Head(lineDiff).value),
                             maxLines - count),
                  Tail(lineDiff), count, maxLines)

\* Differ.formatForTerminal: the lines that are joined
formatForTerminal(diffResult, options) ==
  formatFrom(diffResult.lineDiff, 0, maxLinesOf(options))

\* prettier.format(text) when it succeeds: the formatted text ends with a
\* newline
formatted(text) ==
  IF text = <<>> \/ text[Len(text)] = NL THEN text ELSE text \o <<NL>>

\* Differ.diff up to the diff: the texts that are diffed.  The formatter
\* may reject the old text, or the new text after it accepted the old one
formatOutcomes(oldContent, newContent, format) ==
  IF ~format THEN {<<oldContent, newContent>>}
  ELSE {<<oldContent, newContent>>,
        <<formatted(oldContent), formatted(newContent)>>}
       \cup (IF oldContent = newContent THEN {}
             ELSE {<<formatted(oldContent), newContent>>})

(***************************************************************************)
(* Texts of up to MaxLines lines; a line is blank, a or b; the last line   *)
(* of a text may lack its newline.                                         *)
(***************************************************************************)
MaxLines == 2

\* the lines, each ended by a newline, as one text
RECURSIVE terminated(_)
terminated(ls) ==
  IF ls = <<>> THEN <<>> ELSE Head(ls) \o <<NL>> \o terminated(Tail(ls))

DiffTexts ==
  UNION {UNION {{terminated(ls),
                 SubSeq(terminated(ls), 1, Len(terminated(ls)) - 1)} :
                  ls \in [1..n -> {<<>>, <<"a">>, <<"b">>}]} :
           n \in 0..MaxLines}

(***************************************************************************)
(* The Differ on its own: diff(oldContent, newContent, {format}).          *)
(***************************************************************************)
DiffInit ==
  /\ StoreInit
  /\ nq \in DiffTexts \X DiffTexts \X BOOLEAN
  /\ nr = <<>>

\* the try block of diff
FormatTexts ==
  /\ nr = <<>>
  /\ \E texts \in formatOutcomes(nq[1], nq[2], nq[3]) : nr' = <<texts>>
  /\ UNCHANGED <<nq, storeVars>>

\* the rest of diff
DiffFormatted ==
  /\ Len(nr) = 1
  /\ \E lineDiff \in {diffLines(nr[1][1], nr[1][2])} :
       nr' = Append(nr, diffFormatted(nr[1][1], nr[1][2], lineDiff))
  /\ UNCHANGED <<nq, storeVars>>

\* options.maxLines as given to formatForTerminal; 0 is also what an absent
\* option amounts to
MaxLinesOptions == 0..3

\* formatForTerminal(result, {maxLines})
FormatForTerminal ==
  /\ Len(nr) = 2
  /\ \E maxLines \in MaxLinesOptions :
       nr' = Append(nr, [maxLines |-> maxLines,
                         lines    |-> formatForTerminal(nr[2], maxLines)])
  /\ UNCHANGED <<nq, storeVars>>

DiffNext == FormatTexts \/ DiffFormatted \/ FormatForTerminal

SpecDiff == DiffInit /\ [][DiffNext]_vars


(***************************************************************************)
(* The read projections, on a store filled by whole scans.                 *)
(***************************************************************************)
\* getTargetScans(targetId, limit = 10)
DEFAULT_LIMIT == 10

\* array.slice(0, limit)
slice(array, limit) == SubSeq(array, 1, Min(limit, Len(array)))

\* Storage.getTargetScans
getTargetScans(d, targetId, limit) ==
  slice(sortByTimestampDesc(SelectSeq(d.scans, LAMBDA s : s.targetId = targetId)),
        limit)

\* the entry getTargetScripts pushes for a script with these versions
scriptView(script, versions) ==
  [id             |-> script.id,
   targetId       |-> script.targetId,
   url            |-> script.url,
   normalizedUrl  |-> script.normalizedUrl,
   identifier     |-> script.identifier,
   baseName       |-> script.baseName,
   firstSeen      |-> script.firstSeen,
   lastSeen       |-> script.lastSeen,
   version_count  |-> Len(versions),
   latest_version |-> IF versions = <<>> THEN <<>>
                      ELSE <<sortByTimestampDesc(versions)[1].timestamp>>]

\* Storage.getTargetScripts: the entries of the array, their order left
\* aside
getTargetScripts(d, targetId) ==
  {scriptView(d.scripts[key], versionsOf(d, d.scripts[key].id)) :
     key \in {k \in DOMAIN d.scripts : d.scripts[k].targetId = targetId}}

\* the entry getAllTargets makes of a target
targetView(t, scripts, scans) ==
  [id           |-> t.id,
   domain       |-> t.domain,
   createdAt    |-> t.createdAt,
   lastScan     |-> t.lastScan,
   script_count |-> Cardinality(scripts),
   scan_count   |-> Len(scans),
   last_scan    |-> t.lastScan]

\* Storage.getAllTargets: the entries of the array by domain, their order
\* left aside
getAllTargets(d) ==
  [dom \in DOMAIN d.targets |->
     targetView(d.targets[dom], getTargetScripts(d, d.targets[dom].id),
                getTargetScans(d, d.targets[dom].id, DEFAULT_LIMIT))]

\* the object getHistory returns
historyOf(targetDomain, scans, scripts) ==
  [target  |-> targetDomain,
   scans   |-> scans,
   scripts |-> scripts,
   stats   |-> [totalScans   |-> Len(scans),
                totalScripts |-> Cardinality(scripts),
                firstScan    |-> IF Len(scans) > 0
                                   THEN <<scans[Len(scans)].timestamp>> ELSE <<>>,
                lastScan     |-> IF Len(scans) > 0
                                   THEN <<scans[1].timestamp>> ELSE <<>>]]

\* getHistory once the target g is got or created
historyWith(g, targetDomain) ==
  [db    |-> g.db,
   saved |-> g.saved,
   ret   |-> historyOf(targetDomain,
                       getTargetScans(g.db, g.target.id, DEFAULT_LIMIT),
                       getTargetScripts(g.db, g.target.id))]

\* UCMon.getHistory
getHistory(d, targetDomain, t) ==
  historyWith(getOrCreateTarget(d, targetDomain, t), targetDomain)

\* the loop of scan over extraction.scripts, the k-th storeScript reading
\* the clock at t + k
RECURSIVE storeAll(_, _, _, _, _)
storeNext(stored, targetId, scanId, scripts, t, log) ==
  storeAll([db |-> stored.db, files |-> stored.files,
            log |-> Append(log, [targetId   |-> targetId,
                                 scanId     |-> scanId,
                                 url        |-> Head(scripts).url,
                                 identifier |-> NormalizedInfo[Head(scripts).url].identifier,
                                 content    |-> Head(scripts).content,
                                 ret        |-> stored.ret])],
           targetId, scanId, Tail(scripts), t + 1)

storeAll(s, targetId, scanId, scripts, t) ==
  IF scripts = <<>> THEN s
  ELSE storeNext(storeScript(s.db, s.files, targetId, scanId, Head(scripts),
                             NormalizedInfo[Head(scripts).url], t + 1),
                 targetId, scanId, scripts, t, s.log)

\* scan from createScan on
scanCreated(c, fs, log, targetId, scripts, t) ==
  storeAll([db |-> c.db, files |-> fs, log |-> log], targetId, c.scanId,
           scripts, t)

\* scan from the return of the extraction on
scanExtracted(g, fs, log, url, scripts, t) ==
  scanCreated(createScan(g.db, g.target.id, url, Len(scripts),
                         SumSizes(scripts), t),
              fs, log, g.target.id, scripts, t)

\* a whole UCMon.scan whose extraction returns scripts
scan(d, fs, log, targetUrl, scripts, t) ==
  scanExtracted(getOrCreateTarget(d, ParseURL(normalizeUrl(targetUrl)).host, t),
                fs, log, normalizeUrl(targetUrl), scripts, t)

\* the first target is scanned up to MaxScans times, every other target up
\* to MaxOtherScans times
MaxScans == 11

MaxOtherScans == 1

\* the scans of a URL made so far
scansOfUrl(d, url) == SelectSeq(d.scans, LAMBDA s : s.url = url)

\* what the page of each target holds at every scan
PageScripts ==
  [u \in TargetUrls |->
     IF u = A_COM THEN <<Script(U_chunk0, CX), Script(U_chunk1, CY)>>
     ELSE <<Script(U_main1, CX)>>]

HistoryDomains == {A_COM, B_COM}

\* node cli.js scan <url>, from start to end
ScanAll(targetUrl) ==
  /\ pc = "idle"
  /\ wellFormed(loadDb(disk))
  /\ Len(scansOfUrl(loadDb(disk), normalizeUrl(targetUrl)))
       < (IF targetUrl = A_COM THEN MaxScans ELSE MaxOtherScans)
  /\ \E s \in {scan(loadDb(disk), files, storeLog, targetUrl,
                    PageScripts[targetUrl], now + 1)} :
       /\ db' = s.db
       /\ disk' = saveDb(s.db)
       /\ files' = s.files
       /\ storeLog' = s.log
  /\ now' = now + 1 + Len(PageScripts[targetUrl])
  /\ call' = [op |-> "scan", url |-> targetUrl]
  /\ UNCHANGED <<pc, cur, results, diffCalls, nq, nr, mon>>

\* node cli.js targets
ListTargets ==
  /\ pc = "idle"
  /\ db' = loadDb(disk)
  /\ disk' = saveDb(loadDb(disk))
  /\ call' = [op |-> "getAllTargets", ret |-> getAllTargets(loadDb(disk))]
  /\ UNCHANGED <<files, now, pc, cur, results, diffCalls, storeLog, nq, nr, mon>>

\* node cli.js history <domain>, within the millisecond of the call before
GetHistory(domain) ==
  /\ pc = "idle"
  /\ \E h \in {getHistory(loadDb(disk), domain, now)} :
       /\ db' = h.db
       /\ disk' = saveDb(h.db)
       /\ call' = [op |-> "getHistory", domain |-> domain, ret |-> h.ret]
  /\ UNCHANGED <<files, now, pc, cur, results, diffCalls, storeLog, nq, nr, mon>>

ReadNext ==
  \/ \E u \in TargetUrls : ScanAll(u)
  \/ ListTargets
  \/ \E dom \in HistoryDomains : GetHistory(dom)

SpecRead == Init /\ [][ReadNext]_vars

(***************************************************************************)
(* The reads of stored content, and calls that are interrupted: the        *)
(* process dies between two statements of storeScript or removeTarget and  *)
(* the store is opened again from what is on disk.                         *)
(***************************************************************************)
\* the Versions with this id, over all Scripts
versionsById(d, versionId) ==
  UNION {{versionsOf(d, sid)[i] :
            i \in {j \in DOMAIN versionsOf(d, sid) :
                     versionsOf(d, sid)[j].id = versionId}} :
           sid \in DOMAIN d.scriptVersions}

\* existsSync(contentFile) ? readFileSync(contentFile) : no content
contentOf(fs, version) ==
  IF version.contentFile \in DOMAIN fs THEN <<fs[version.contentFile]>> ELSE <<>>

\* Storage.getVersionContent: null, or the Version with its content if the
\* file is there
getVersionContent(d, fs, versionId) ==
  IF versionsById(d, versionId) = {} THEN <<>>
  ELSE <<[version |-> CHOOSE v \in versionsById(d, versionId) : TRUE,
          content |-> contentOf(fs, CHOOSE v \in versionsById(d, versionId) : TRUE)]>>

\* what getScriptWithContent returns for a Script and its sorted Versions
scriptWithContent(fs, foundScript, versions) ==
  IF versions = <<>> THEN [script |-> foundScript, latest |-> <<>>]
  ELSE [script |-> foundScript,
        latest |-> <<[content           |-> contentOf(fs, versions[1]),
                      content_hash      |-> versions[1].contentHash,
                      size              |-> versions[1].size,
                      version_timestamp |-> versions[1].timestamp]>>]

\* Storage.getScriptWithContent
getScriptWithContent(d, fs, scriptId) ==
  IF \A k \in DOMAIN d.scripts : d.scripts[k].id # scriptId THEN <<>>
  ELSE <<scriptWithContent(fs,
                           d.scripts[CHOOSE k \in DOMAIN d.scripts :
                                       d.scripts[k].id = scriptId],
                           getScriptVersions(d, scriptId))>>

\* the content files removeTarget unlinks, in the order it unlinks them:
\* Script by Script as they were created, Version by Version as stored
RECURSIVE unlinkOrder(_, _)
unlinkFrom(d, sids, first) ==
  [i \in DOMAIN versionsOf(d, first) |-> versionsOf(d, first)[i].contentFile]
    \o unlinkOrder(d, sids \ {first})

unlinkOrder(d, sids) ==
  IF sids = {} THEN <<>>
  ELSE unlinkFrom(d, sids, CHOOSE m \in sids : \A x \in sids : m <= x)

\* the content files left when removeTarget dies after k unlinks
unlinked(fs, order, k) == MapDel(fs, {order[i] : i \in 1..k})

\* the pages scanned and the ids read in this specification
FaultUrls == {A_COM}

FaultExtractions == {<<Script(U_main1, CX)>>, <<Script(U_main1, CZ)>>}

FaultIds == 1..2

\* storeScript dies before its saveDb: the content file of a new Version
\* may be written already, the metadata file is as it was
StoreScriptInterrupted ==
  /\ pc = "store"
  /\ cur.queue # <<>>
  /\ \E stored \in {storeScript(db, files, cur.target[1].id, cur.scanId[1],
                                Head(cur.queue),
                                NormalizedInfo[Head(cur.queue).url], now + 1)} :
       /\ files' \in {files, stored.files}
       /\ call' = [op    |-> "interrupted",
                   in    |-> "storeScript",
                   whole |-> [disk |-> saveDb(stored.db), files |-> stored.files]]
  /\ db' = loadDb(disk)
  /\ pc' = "idle"
  /\ cur' = NoCur
  /\ results' = NoResults
  /\ diffCalls' = <<>>
  /\ UNCHANGED <<disk, now, storeLog, nq, nr, mon>>

\* removeTarget dies before its saveDb, after unlinking k content files
RemoveTargetInterrupted(domain) ==
  /\ pc = "idle"
  /\ domain \in DOMAIN loadDb(disk).targets
  /\ \E order \in {unlinkOrder(loadDb(disk),
                               {loadDb(disk).scripts[key].id :
                                  key \in {x \in DOMAIN loadDb(disk).scripts :
                                             loadDb(disk).scripts[x].targetId
                                               = loadDb(disk).targets[domain].id}})} :
       \E k \in 0..Len(order) : files' = unlinked(files, order, k)
  /\ \E r \in {removeTarget(loadDb(disk), files, domain)} :
       call' = [op    |-> "interrupted",
                in    |-> "removeTarget",
                whole |-> [disk |-> saveDb(r.db), files |-> r.files]]
  /\ db' = loadDb(disk)
  /\ UNCHANGED <<disk, now, pc, cur, results, diffCalls, storeLog, nq, nr, mon>>

\* storage.getVersionContent(versionId) on a freshly opened store
CallGetVersionContent(versionId) ==
  /\ pc = "idle"
  /\ wellFormed(loadDb(disk))
  /\ db' = loadDb(disk)
  /\ call' = [op |-> "getVersionContent", versionId |-> versionId,
              ret |-> getVersionContent(loadDb(disk), files, versionId)]
  /\ UNCHANGED <<disk, files, now, pc, cur, results, diffCalls, storeLog,
                 nq, nr, mon>>

\* storage.getScriptWithContent(scriptId) on a freshly opened store
CallGetScriptWithContent(scriptId) ==
  /\ pc = "idle"
  /\ wellFormed(loadDb(disk))
  /\ db' = loadDb(disk)
  /\ call' = [op |-> "getScriptWithContent", scriptId |-> scriptId,
              ret |-> getScriptWithContent(loadDb(disk), files, scriptId)]
  /\ UNCHANGED <<disk, files, now, pc, cur, results, diffCalls, storeLog,
                 nq, nr, mon>>

\* storage.getPreviousVersion(scriptId, currentVersionId) on a freshly
\* opened store
CallGetPreviousVersion(scriptId, currentVersionId) ==
  /\ pc = "idle"
  /\ wellFormed(loadDb(disk))
  /\ db' = loadDb(disk)
  /\ call' = [op |-> "getPreviousVersion", scriptId |-> scriptId,
              currentVersionId |-> currentVersionId,
              ret |-> getPreviousVersion(loadDb(disk), files, scriptId,
                                         currentVersionId)]
  /\ UNCHANGED <<disk, files, now, pc, cur, results, diffCalls, storeLog,
                 nq, nr, mon>>

FaultNext ==
  \/ \E u \in FaultUrls : ScanStart(u)
  \/ ExtractFail
  \/ \E e \in FaultExtractions : ExtractOk(e)
  \/ ScanScript
  \/ ScanFinish
  \/ \E dom \in FaultUrls : RemoveTarget(dom)
  \/ StoreScriptInterrupted
  \/ \E dom \in FaultUrls : RemoveTargetInterrupted(dom)
  \/ \E id \in FaultIds : CallGetVersionContent(id)
  \/ \E id \in FaultIds : CallGetScriptWithContent(id)
  \/ \E sid \in FaultIds, vid \in FaultIds : CallGetPreviousVersion(sid, vid)

SpecFault == Init /\ [][FaultNext]_vars

(***************************************************************************)
(* The monitor command: runScan once, then on every tick of the interval   *)
(* timer, whether or not the scan before has finished.  Every runScan      *)
(* makes its own UCMon, whose Storage loads the metadata file; the scans   *)
(* interleave where scan() awaits.                                         *)
(***************************************************************************)
\* the monitor starts up to MaxMonitorScans scans
MaxMonitorScans == 3

MonitorUrl == A_COM

\* what the page may hold when a scan extracts it
MonitorExtractions == {<<Script(U_main1, CX)>>, <<Script(U_main1, CZ)>>}

\* new UCMon() and scan() up to its first await, once getOrCreateTarget has
\* returned g
scanAwaiting(g, url) ==
  [pc |-> "extract", db |-> g.db, target |-> <<g.target>>, url |-> url,
   saved |-> g.saved]

\* new UCMon() on the database d and scan() up to its first await; on a
\* database without targets getOrCreateTarget throws and runScan catches
scanStarted(d, targetUrl, t) ==
  IF ~wellFormed(d)
    THEN [pc |-> "failed", db |-> d, target |-> <<>>,
          url |-> normalizeUrl(targetUrl), saved |-> FALSE]
    ELSE scanAwaiting(getOrCreateTarget(d, ParseURL(normalizeUrl(targetUrl)).host, t),
                      normalizeUrl(targetUrl))

\* a monitor whose runScan lets the error of a failed scan through: the
\* timer is set only when the first scan succeeded
timerAfterSuccess(k, scanPc, timer) ==
  IF k = 1 /\ scanPc = "done" THEN "set" ELSE timer

\* await runScan(); setInterval(runScan, intervalMs): the timer is set when
\* the first runScan is over
timerAfter(k, scanPc, timer) ==
  IF k = 1 /\ scanPc \in {"done", "failed"} THEN "set" ELSE timer

\* if (newScripts.length > 0 || updatedScripts.length > 0): scan awaits the
\* notification before it returns
notifies(log) ==
  \E i \in DOMAIN log : log[i].ret.isNewScript \/ log[i].ret.isNewVersion

\* the Scan record createScan made in the database it returned
createdScan(before, after) ==
  after.scans[CHOOSE i \in DOMAIN after.scans :
                after.scans[i].id = before.nextId.scan]

\* what scan k was acknowledged: the Scan record of its createScan and the
\* return values of its storeScript calls
acknowledged(k, before, s) ==
  [scan |-> k, created |-> createdScan(before, s.db), stored |-> s.log]

\* runScan is called: at once, or by the timer
RunScan ==
  /\ Len(mon.scans) < MaxMonitorScans
  /\ IF mon.scans = <<>> THEN mon.timer = "unset" ELSE mon.timer = "set"
  /\ \E started \in {scanStarted(loadDb(disk), MonitorUrl, now + 1)} :
       /\ disk' = IF started.saved THEN saveDb(started.db) ELSE disk
       /\ mon' = [mon EXCEPT
                    !.scans = Append(@, [pc     |-> started.pc,
                                         db     |-> started.db,
                                         target |-> started.target,
                                         url    |-> started.url]),
                    !.timer = timerAfter(Len(mon.scans) + 1, started.pc, @)]
  /\ now' = now + 1
  /\ UNCHANGED <<db, files, pc, cur, results, diffCalls, call, storeLog,
                 nq, nr>>

\* the extraction of scan k rejects: runScan catches, nothing is closed
ExtractRejects(k) ==
  /\ mon.scans[k].pc = "extract"
  /\ mon' = [mon EXCEPT !.scans[k].pc = "failed",
                        !.timer = timerAfter(k, "failed", @)]
  /\ UNCHANGED <<db, disk, files, now, pc, cur, results, diffCalls, call,
                 storeLog, nq, nr>>

\* the extraction of scan k resolves: createScan and the loop of
\* storeScript on the scan's own Storage, every one saving the metadata
\* file; then the notification is awaited, or runScan closes the store
ExtractResolves(k, scripts) ==
  /\ mon.scans[k].pc = "extract"
  /\ \E s \in {scanExtracted([db |-> mon.scans[k].db,
                              target |-> mon.scans[k].target[1]],
                             files, <<>>, mon.scans[k].url, scripts, now + 1)} :
       \E scanPc \in {IF notifies(s.log) THEN "notify" ELSE "done"} :
         /\ disk' = saveDb(s.db)
         /\ files' = s.files
         /\ mon' = [mon EXCEPT
                      !.scans[k].pc = scanPc,
                      !.scans[k].db = s.db,
                      !.acks = Append(@, acknowledged(k, mon.scans[k].db, s)),
                      !.timer = timerAfter(k, scanPc, @)]
  /\ now' = now + 1 + Len(scripts)
  /\ UNCHANGED <<db, pc, cur, results, diffCalls, call, storeLog, nq, nr>>

\* the notification of scan k is over: scan returns and runScan closes the
\* store, which saves the metadata file once more
ScanNotified(k) ==
  /\ mon.scans[k].pc = "notify"
  /\ disk' = saveDb(mon.scans[k].db)
  /\ mon' = [mon EXCEPT !.scans[k].pc = "done",
                        !.timer = timerAfter(k, "done", @)]
  /\ UNCHANGED <<db, files, now, pc, cur, results, diffCalls, call, storeLog,
                 nq, nr>>

MonitorNext ==
  \/ RunScan
  \/ \E k \in DOMAIN mon.scans : ExtractRejects(k)
  \/ \E k \in DOMAIN mon.scans, e \in MonitorExtractions : ExtractResolves(k, e)
  \/ \E k \in DOMAIN mon.scans : ScanNotified(k)

SpecMonitor == OpenInit /\ [][MonitorNext]_vars

\* the timer keeps ticking, and every runScan it calls is started
SpecMonitorLive == SpecMonitor /\ WF_vars(RunScan)

(***************************************************************************)
(* One script of one target, scanned again and again with changing         *)
(* content.                                                                *)
(***************************************************************************)
\* the clock of this specification stops scans at MaxLongTime
MaxLongTime == 7

\* what the page holds at a scan: main.<hash>.js with one of three contents
LongExtractions ==
  {<<Script(U_main1, CX)>>, <<Script(U_main2, CY)>>, <<Script(U_main3, CZ)>>,
   <<Script(U_main1, CZ)>>}

LongNext ==
  \/ now < MaxLongTime /\ ScanBegin(A_COM)
  \/ ExtractFail
  \/ \E e \in LongExtractions : ExtractOk(e)
  \/ ScanScript
  \/ ScanFinish

SpecLong == Init /\ [][LongNext]_vars

(***************************************************************************)
(* UCMon.diffVersions on a store filled by scans.                          *)
(***************************************************************************)
\* !content: the Version has no content property, or its content is ''
noContent(v) == v.content = <<>> \/ v.content[1] = <<>>

\* diffVersions once both Versions are looked up
diffFound(v1, v2) ==
  IF v1 = <<>> \/ v2 = <<>>
    THEN [threw |-> <<"Version not found">>, ret |-> <<>>]
  ELSE IF noContent(v1[1]) \/ noContent(v2[1])
    THEN [threw |-> <<"Version content not available">>, ret |-> <<>>]
  ELSE [threw |-> <<>>, ret |-> <<diff(v1[1].content[1], v2[1].content[1])>>]

\* UCMon.diffVersions
diffVersions(d, fs, scriptId, versionId1, versionId2) ==
  diffFound(getVersionContent(d, fs, versionId1),
            getVersionContent(d, fs, versionId2))

\* what the page of a scan may hold: main.<hash>.js with some content or
\* with none, or the chunk 0.js
DetailExtractions ==
  {<<Script(U_main1, CX)>>, <<Script(U_main2, <<>>)>>, <<Script(U_chunk0, CY)>>}

DetailIds == 1..2

\* the sites of the scan command: any host name may be given
DetailUrls == {A_COM, CONSTRUCTOR}

\* monitor.diffVersions(scriptId, v1Id, v2Id) on a freshly opened store
CallDiffVersions(scriptId, versionId1, versionId2) ==
  /\ pc = "idle"
  /\ wellFormed(loadDb(disk))
  /\ db' = loadDb(disk)
  /\ \E d \in {diffVersions(loadDb(disk), files, scriptId, versionId1,
                            versionId2)} :
       call' = [op |-> "diffVersions", scriptId |-> scriptId,
                versionId1 |-> versionId1, versionId2 |-> versionId2,
                threw |-> d.threw, ret |-> d.ret]
  /\ UNCHANGED <<disk, files, now, pc, cur, results, diffCalls, storeLog,
                 nq, nr, mon>>

DetailNext ==
  \/ \E u \in DetailUrls : ScanStart(u)
  \/ ExtractFail
  \/ \E e \in DetailExtractions : ExtractOk(e)
  \/ ScanScript
  \/ ScanFinish
  \/ \E sid \in DetailIds, v1 \in DetailIds, v2 \in DetailIds :
       CallDiffVersions(sid, v1, v2)
  \/ \E dom \in RemoveDomains : RemoveTarget(dom)

SpecDetail == Init /\ [][DetailNext]_vars

(***************************************************************************)
(* Properties.                                                             *)
(***************************************************************************)
\* two storeScript calls for the same Script: same target id, same
\* stable identifier
SameScript(a, b) == a.targetId = b.targetId /\ a.identifier = b.identifier

\* the Script of the logged call e is still in the store
StillStored(e) == scriptKey(e.targetId, e.identifier) \in DOMAIN db.scripts

\* the store holds a Version of script sid with this id and content hash
HasVersion(sid, vid, hash) ==
  \E n \in DOMAIN versionsOf(db, sid) :
    /\ versionsOf(db, sid)[n].id = vid
    /\ versionsOf(db, sid)[n].contentHash = hash

\* C1: storing a content twice for the same Script (same target id and
\* stable identifier), whatever other storeScript calls come in between,
\* returns isNewVersion = false on the second call and the versionId of
\* the first call.
C1_StoreTwiceSameVersion ==
  \A i \in DOMAIN storeLog : \A j \in DOMAIN storeLog :
    (/\ i < j
     /\ SameScript(storeLog[i], storeLog[j])
     /\ storeLog[i].content = storeLog[j].content)
      => /\ ~storeLog[j].ret.isNewVersion
         /\ storeLog[j].ret.versionId = storeLog[i].ret.versionId

\* a content stored, then another content stored for the same Script, then
\* the first content stored again under another URL of the Script
C1_Witness ==
  \E i \in DOMAIN storeLog : \E m \in DOMAIN storeLog : \E j \in DOMAIN storeLog :
    /\ i < m /\ m < j
    /\ SameScript(storeLog[i], storeLog[j])
    /\ SameScript(storeLog[i], storeLog[m])
    /\ storeLog[i].content = storeLog[j].content
    /\ storeLog[i].content # storeLog[m].content
    /\ storeLog[i].url # storeLog[j].url
    /\ storeLog[m].ret.isNewVersion
    /\ ~storeLog[j].ret.isNewVersion
    /\ storeLog[j].ret.versionId = storeLog[i].ret.versionId

\* C2: after any sequence of store operations no Script has two Version
\* records with the same content hash.
C2_NoTwoVersionsShareHash ==
  \A sid \in DOMAIN db.scriptVersions :
    \A m \in DOMAIN db.scriptVersions[sid] :
      \A n \in DOMAIN db.scriptVersions[sid] :
        m # n => db.scriptVersions[sid][m].contentHash #
                 db.scriptVersions[sid][n].contentHash

\* a Script with two Versions for which a content was stored again and
\* resolved to one of them
C2_Witness ==
  \E k \in DOMAIN storeLog :
    /\ ~storeLog[k].ret.isNewVersion
    /\ Len(versionsOf(db, storeLog[k].ret.scriptId)) >= 2
    /\ HasVersion(storeLog[k].ret.scriptId, storeLog[k].ret.versionId,
                  storeLog[k].ret.contentHash)

\* C3: the pair (target id, stable identifier) determines exactly one
\* Script: calls with the same pair resolve to the same script id, calls
\* with the same identifier and different target ids resolve to different
\* Scripts, and every Script has a version list of its own.
C3_PairDeterminesScript ==
  /\ \A i \in DOMAIN storeLog : \A j \in DOMAIN storeLog :
       /\ SameScript(storeLog[i], storeLog[j])
            => storeLog[i].ret.scriptId = storeLog[j].ret.scriptId
       /\ (/\ storeLog[i].identifier = storeLog[j].identifier
           /\ storeLog[i].targetId # storeLog[j].targetId)
            => storeLog[i].ret.scriptId # storeLog[j].ret.scriptId
  /\ \A k1 \in DOMAIN db.scripts : \A k2 \in DOMAIN db.scripts :
       /\ db.scripts[k1].id \in DOMAIN db.scriptVersions
       /\ k1 = scriptKey(db.scripts[k1].targetId, db.scripts[k1].identifier)
       /\ k1 # k2 => db.scripts[k1].id # db.scripts[k2].id
  /\ \A sid \in DOMAIN db.scriptVersions :
       \A n \in DOMAIN db.scriptVersions[sid] :
         /\ db.scriptVersions[sid][n].scriptId = sid
         /\ \A sid2 \in DOMAIN db.scriptVersions \ {sid} :
              \A n2 \in DOMAIN db.scriptVersions[sid2] :
                db.scriptVersions[sid2][n2].id # db.scriptVersions[sid][n].id

\* the same identifier stored for two targets, and stored twice for one of
\* them; both Scripts are in the store with their versions
C3_Witness ==
  \E i \in DOMAIN storeLog : \E j \in DOMAIN storeLog : \E k \in DOMAIN storeLog :
    /\ storeLog[i].identifier = storeLog[j].identifier
    /\ storeLog[i].targetId # storeLog[j].targetId
    /\ storeLog[i].ret.scriptId # storeLog[j].ret.scriptId
    /\ k # i
    /\ SameScript(storeLog[i], storeLog[k])
    /\ storeLog[k].ret.scriptId = storeLog[i].ret.scriptId
    /\ StillStored(storeLog[i])
    /\ StillStored(storeLog[j])
    /\ versionsOf(db, storeLog[i].ret.scriptId) # <<>>
    /\ versionsOf(db, storeLog[j].ret.scriptId) # <<>>

\* C4: two URLs whose paths differ in one recognized volatile token only
\* have the same normalize().identifier.
C4_VolatileTokenSameIdentifier ==
  nr # <<>> => nr[1].identifier = nr[2].identifier

\* the versions of script sid with an id smaller than vid
SmallerVersions(sid, vid) ==
  {n \in DOMAIN versionsOf(db, sid) : versionsOf(db, sid)[n].id < vid}

\* C5: getPreviousVersion(scriptId, v) returns none for the Script's
\* version with the smallest id, and for every other version v the Version
\* with the largest id smaller than v among the Script's versions.
C5_PreviousIsNextSmaller ==
  \A sid \in DOMAIN db.scriptVersions :
    \A n \in DOMAIN db.scriptVersions[sid] :
      \E got \in {getPreviousVersion(db, files, sid, db.scriptVersions[sid][n].id)} :
        IF SmallerVersions(sid, db.scriptVersions[sid][n].id) = {}
          THEN got = <<>>
          ELSE /\ got # <<>>
               /\ \E m \in SmallerVersions(sid, db.scriptVersions[sid][n].id) :
                    got[1].version = db.scriptVersions[sid][m]
               /\ \A m \in SmallerVersions(sid, db.scriptVersions[sid][n].id) :
                    db.scriptVersions[sid][m].id <= got[1].version.id

\* a Script with three versions: the previous version of the newest is the
\* middle one, the oldest has none
C5_Witness ==
  \E sid \in DOMAIN db.scriptVersions :
    /\ Len(db.scriptVersions[sid]) >= 3
    /\ getPreviousVersion(db, files, sid, db.scriptVersions[sid][1].id) = <<>>
    /\ getPreviousVersion(db, files, sid, db.scriptVersions[sid][3].id) # <<>>
    /\ getPreviousVersion(db, files, sid, db.scriptVersions[sid][3].id)[1].version
         = db.scriptVersions[sid][2]

\* the logged call e is the observation of url with content
Observed(e, url, content) == e.url = url /\ e.content = content

\* i and j are successive stores for one target, in different scans, and
\* no store for that target lies between them
Successive(i, j) ==
  /\ i < j
  /\ storeLog[i].targetId = storeLog[j].targetId
  /\ storeLog[i].scanId < storeLog[j].scanId
  /\ \A m \in (i + 1)..(j - 1) : storeLog[m].targetId # storeLog[i].targetId

\* i is the first store for its target
FirstStore(i) == \A m \in 1..(i - 1) : storeLog[m].targetId # storeLog[i].targetId

\* the running scan has just made the logged call k, its only store
JustStored(k) ==
  pc = "store" /\ k = Len(storeLog) /\ Len(results.scripts) = 1

\* C6: three successive scans of one target observe main.abc12345.js with
\* content X, main.def67890.js with content X, main.0f1e2d3c.js with
\* content Y.  The first creates the Script and its Version v1; the second
\* resolves to the same Script and to v1 and triggers no diff; the third
\* resolves to the same Script, creates a Version v2 and triggers exactly
\* one diff, of X against Y.
C6_ThreeScans ==
  \A i \in DOMAIN storeLog :
    (FirstStore(i) /\ Observed(storeLog[i], U_main1, CX))
      => /\ storeLog[i].ret.isNewScript
         /\ storeLog[i].ret.isNewVersion
         /\ \A j \in DOMAIN storeLog :
              (Successive(i, j) /\ Observed(storeLog[j], U_main2, CX))
                => /\ storeLog[j].ret.scriptId = storeLog[i].ret.scriptId
                   /\ storeLog[j].ret.versionId = storeLog[i].ret.versionId
                   /\ ~storeLog[j].ret.isNewScript
                   /\ ~storeLog[j].ret.isNewVersion
                   /\ JustStored(j) => /\ diffCalls = <<>>
                                       /\ results.changes = <<>>
                                       /\ results.scripts[1].diff = <<>>
                   /\ \A k \in DOMAIN storeLog :
                        (Successive(j, k) /\ Observed(storeLog[k], U_main3, CY))
                          => /\ storeLog[k].ret.scriptId = storeLog[i].ret.scriptId
                             /\ ~storeLog[k].ret.isNewScript
                             /\ storeLog[k].ret.isNewVersion
                             /\ storeLog[k].ret.versionId # storeLog[i].ret.versionId
                             /\ JustStored(k) =>
                                  /\ diffCalls = <<[old |-> CX, new |-> CY]>>
                                  /\ Len(results.changes) = 1
                                  /\ results.scripts[1].diff = <<diff(CX, CY).stats>>

\* the third scan of the scenario has just stored its script
C6_Witness ==
  /\ Len(storeLog) = 3
  /\ JustStored(3)
  /\ FirstStore(1) /\ Successive(1, 2) /\ Successive(2, 3)
  /\ Observed(storeLog[1], U_main1, CX)
  /\ Observed(storeLog[2], U_main2, CX)
  /\ Observed(storeLog[3], U_main3, CY)
  /\ storeLog[3].ret.isNewVersion
  /\ diffCalls = <<[old |-> CX, new |-> CY]>>

\* the logged call behind the i-th per-script result of the running scan
LogOf(i) == storeLog[Len(storeLog) - Len(results.scripts) + i]

\* the per-script results of the running scan that carry diff stats
Diffed == {i \in DOMAIN results.scripts : results.scripts[i].diff # <<>>}

\* the logged call k stored the first Version its Script ever had
FirstEverVersion(k) ==
  \A m \in 1..(k - 1) : storeLog[m].ret.scriptId # storeLog[k].ret.scriptId

\* C7: during a scan the Diff Engine is invoked for a script if and only if
\* storeScript reported isNewVersion && !isNewScript; the diff stats are
\* then attached to the per-script result and one entry is appended to the
\* changes list; a script whose stored Version is its first ever is never
\* diffed.
C7_DiffIffNewVersionOfKnownScript ==
  pc = "store" =>
    /\ Len(results.scripts) <= Len(storeLog)
    /\ \A i \in DOMAIN results.scripts :
         /\ results.scripts[i].url = LogOf(i).url
         /\ results.scripts[i].diff # <<>>
              <=> (LogOf(i).ret.isNewVersion /\ ~LogOf(i).ret.isNewScript)
         /\ FirstEverVersion(Len(storeLog) - Len(results.scripts) + i)
              => results.scripts[i].diff = <<>>
    /\ Len(diffCalls) = Cardinality(Diffed)
    /\ Len(results.changes) = Cardinality(Diffed)
    /\ \A k \in DOMAIN results.changes :
         /\ results.changes[k].stats = diff(diffCalls[k].old, diffCalls[k].new).stats
         /\ \E i \in Diffed :
              /\ results.scripts[i].url = results.changes[k].url
              /\ results.scripts[i].diff = <<results.changes[k].stats>>
              /\ diffCalls[k].new = LogOf(i).content

\* a scan of two scripts: the first stored the first Version of a Script
\* and was not diffed, the second stored a new Version of it and was
C7_Witness ==
  /\ pc = "store"
  /\ Len(results.scripts) = 2
  /\ results.scripts[1].isNew
  /\ results.scripts[1].diff = <<>>
  /\ results.scripts[2].hasNewVersion
  /\ ~results.scripts[2].isNew
  /\ results.scripts[2].diff # <<>>
  /\ Len(results.changes) = 1
  /\ Len(diffCalls) = 1

\* the keys of the scripts of target tid
ScriptKeysOf(d, tid) == {k \in DOMAIN d.scripts : d.scripts[k].targetId = tid}

\* the ids of the scripts of target tid
ScriptIdsOf(d, tid) == {d.scripts[k].id : k \in ScriptKeysOf(d, tid)}

\* what removeTarget(dom) on a known domain, of target id tid, must do
RemovedAll(dom, tid) ==
  /\ call'.ret = TRUE
  /\ dom \notin DOMAIN db'.targets
  /\ \A n \in DOMAIN db'.scans : db'.scans[n].targetId # tid
  /\ ScriptKeysOf(db', tid) = {}
  /\ \A sid \in ScriptIdsOf(db, tid) :
       /\ sid \notin DOMAIN db'.scriptVersions
       /\ \A n \in DOMAIN versionsOf(db, sid) :
            versionsOf(db, sid)[n].contentFile \notin DOMAIN files'
  /\ disk' = saveDb(db')

\* what removeTarget(dom) must leave alone
OthersKept(dom, tid) ==
  /\ \A o \in DOMAIN db.targets \ {dom} :
       o \in DOMAIN db'.targets /\ db'.targets[o] = db.targets[o]
  /\ DOMAIN db'.targets \subseteq DOMAIN db.targets
  /\ db'.scans = SelectSeq(db.scans, LAMBDA sc : sc.targetId # tid)
  /\ DOMAIN db'.scripts = DOMAIN db.scripts \ ScriptKeysOf(db, tid)
  /\ \A k \in DOMAIN db'.scripts :
       /\ db'.scripts[k] = db.scripts[k]
       /\ versionsOf(db', db.scripts[k].id) = versionsOf(db, db.scripts[k].id)
       /\ \A n \in DOMAIN versionsOf(db, db.scripts[k].id) :
            /\ versionsOf(db, db.scripts[k].id)[n].contentFile \in DOMAIN files'
            /\ files'[versionsOf(db, db.scripts[k].id)[n].contentFile]
                 = files[versionsOf(db, db.scripts[k].id)[n].contentFile]
  /\ DOMAIN files' \subseteq DOMAIN files
  /\ db'.nextId = db.nextId

\* C8: removeTarget(domain) on a known domain returns true and removes the
\* Target, every Scan, Script and Version it owns and the stored content of
\* each of those Versions; every record and stored content of any other
\* target is left unchanged.
C8_RemoveKnownCascades ==
  [][\A dom \in RemoveDomains :
       (RemoveTarget(dom) /\ dom \in DOMAIN db.targets)
         => /\ RemovedAll(dom, db.targets[dom].id)
            /\ OthersKept(dom, db.targets[dom].id)]_vars

\* a target with scripts has just been removed, another target with
\* scripts, versions and content files is in the store
C8_Witness ==
  /\ call.op = "removeTarget"
  /\ call.known
  /\ call.ret = TRUE
  /\ call.domain \notin DOMAIN db.targets
  /\ \E e \in {storeLog[k] : k \in DOMAIN storeLog} : ~StillStored(e)
  /\ \E e \in {storeLog[k] : k \in DOMAIN storeLog} :
       /\ StillStored(e)
       /\ HasVersion(e.ret.scriptId, e.ret.versionId, e.ret.contentHash)
       /\ contentFileOf(e.ret.versionId) \in DOMAIN files

\* C9: removeTarget(domain) on a domain that is not in the store returns
\* false and leaves the whole store state (in-memory metadata, metadata
\* file, content files) unchanged.
C9_RemoveUnknownIsNoOp ==
  [][\A dom \in RemoveDomains :
       (RemoveTarget(dom) /\ dom \notin DOMAIN loadDb(disk).targets)
         => /\ call'.ret = FALSE
            /\ db' = db
            /\ disk' = disk
            /\ files' = files]_vars

\* the same for the domains that are no property name of Object.prototype
RemoveUnknownOrdinaryIsNoOp ==
  [][\A dom \in RemoveDomains \ ObjectPrototypeKeys :
       (RemoveTarget(dom) /\ dom \notin DOMAIN loadDb(disk).targets)
         => /\ call'.ret = FALSE
            /\ db' = db
            /\ disk' = disk
            /\ files' = files]_vars

\* C10: storing two distinct contents for the same Script yields two
\* Version records with distinct version ids and distinct content hashes.
C10_DistinctContentsDistinctVersions ==
  \A i \in DOMAIN storeLog : \A j \in DOMAIN storeLog :
    (/\ SameScript(storeLog[i], storeLog[j])
     /\ storeLog[i].content # storeLog[j].content)
      => /\ storeLog[i].ret.versionId # storeLog[j].ret.versionId
         /\ storeLog[i].ret.contentHash # storeLog[j].ret.contentHash
         /\ StillStored(storeLog[i])
              => /\ HasVersion(storeLog[i].ret.scriptId, storeLog[i].ret.versionId,
                               hashContent(storeLog[i].content))
                 /\ HasVersion(storeLog[j].ret.scriptId, storeLog[j].ret.versionId,
                               hashContent(storeLog[j].content))

\* two contents stored for one Script, which holds a Version of each
C10_Witness ==
  \E i \in DOMAIN storeLog : \E j \in DOMAIN storeLog :
    /\ i < j
    /\ SameScript(storeLog[i], storeLog[j])
    /\ storeLog[i].content # storeLog[j].content
    /\ StillStored(storeLog[i])
    /\ storeLog[i].ret.versionId # storeLog[j].ret.versionId
    /\ HasVersion(storeLog[i].ret.scriptId, storeLog[i].ret.versionId,
                  hashContent(storeLog[i].content))
    /\ HasVersion(storeLog[j].ret.scriptId, storeLog[j].ret.versionId,
                  hashContent(storeLog[j].content))

(***************************************************************************)
(* Properties of the Storage methods.                                      *)
(***************************************************************************)
\* the step is a getOrCreateTarget call that returned
GetOrCreateStep == call'.op = "getOrCreateTarget" /\ now' # now

\* the call is an upsert: a known domain is returned as stored and nothing
\* changes; an unknown one gets one new Target, with the next id
UpsertStep ==
  IF call'.domain \in DOMAIN db.targets
    THEN /\ call'.ret = db.targets[call'.domain]
         /\ db' = db
    ELSE /\ DOMAIN db'.targets = DOMAIN db.targets \cup {call'.domain}
         /\ db'.targets[call'.domain] = call'.ret
         /\ call'.ret.id = db.nextId.target
         /\ \A dom \in DOMAIN db.targets :
              /\ db.targets[dom].id < call'.ret.id
              /\ db'.targets[dom] = db.targets[dom]
         /\ db' = [db EXCEPT !.targets = db'.targets, !.nextId.target = @ + 1]

\* C11: getOrCreateTarget is an idempotent upsert keyed by domain: the first
\* call for a domain creates one Target with a fresh id; a later call for
\* the domain, with no removeTarget in between, returns that Target and
\* creates no record and consumes no id.
C11_GetOrCreateTargetIsUpsert == [][GetOrCreateStep => UpsertStep]_vars

\* the same for the domains that are no property of Object.prototype
GetOrCreateOrdinaryIsUpsert ==
  [][(GetOrCreateStep /\ call'.domain \notin ObjectPrototypeKeys) => UpsertStep]_vars

\* the step is the createScan call of a scan
CreateScanStep == pc = "extract" /\ pc' = "store"

\* what one createScan call does to the scans and the targets
ScanAppended ==
  /\ Len(db'.scans) = Len(db.scans) + 1
  /\ SubSeq(db'.scans, 1, Len(db.scans)) = db.scans
  /\ db'.scans[Len(db'.scans)].id = call'.ret
  /\ db'.scans[Len(db'.scans)].id >= db.nextId.scan
  /\ \A i \in DOMAIN db.scans : db.scans[i].id < db'.scans[Len(db'.scans)].id
  /\ call'.targetId \in {db.targets[dom].id : dom \in DOMAIN db.targets}
  /\ \A dom \in DOMAIN db.targets :
       db.targets[dom].id = call'.targetId =>
         db'.targets[dom].lastScan = <<db'.scans[Len(db'.scans)].timestamp>>

\* C12: every createScan call appends exactly one new Scan whose id is
\* greater than the id of every Scan created before it (the ids handed out
\* so far are those below nextId.scan, which never decreases), modifies no
\* existing Scan, and sets the lastScan of the Target with the given id
\* to the timestamp of the new Scan.
C12_CreateScanAppends ==
  [][/\ CreateScanStep => ScanAppended
     /\ db'.nextId.scan >= db.nextId.scan
     /\ \A i \in DOMAIN db'.scans : db'.scans[i].id < db'.nextId.scan]_vars

\* a createScan call has returned in a store that held a Scan before
C12_Witness ==
  /\ call.op = "createScan"
  /\ Len(db.scans) >= 2
  /\ db.scans[Len(db.scans)].id = call.ret
  /\ \E dom \in DOMAIN db.targets :
       /\ db.targets[dom].id = call.targetId
       /\ db.targets[dom].lastScan = <<db.scans[Len(db.scans)].timestamp>>

\* the ids of the sequence of versions vs descend strictly
DescendingIds(vs) == \A i \in 1..(Len(vs) - 1) : vs[i].id > vs[i + 1].id

\* vs holds the versions the store has for script sid, each once
AllVersionsOf(vs, sid) ==
  /\ Len(vs) = Len(versionsOf(db, sid))
  /\ {vs[i] : i \in DOMAIN vs} =
       {versionsOf(db, sid)[i] : i \in DOMAIN versionsOf(db, sid)}

\* C13: getScriptVersions(scriptId) returns all Versions of the Script
\* newest first: in strictly descending id order, also when two Versions
\* carry the same capture timestamp.
C13_VersionsNewestFirst ==
  call.op = "getScriptVersions" =>
    /\ AllVersionsOf(call.ret, call.scriptId)
    /\ DescendingIds(call.ret)

\* the same for a Script whose Versions carry distinct timestamps
VersionsNewestFirstWhenTimesDiffer ==
  (/\ call.op = "getScriptVersions"
   /\ \A i, j \in DOMAIN call.ret :
        i # j => call.ret[i].timestamp # call.ret[j].timestamp) =>
    /\ AllVersionsOf(call.ret, call.scriptId)
    /\ DescendingIds(call.ret)

\* the step is a storeScript call of a scan
StoreScriptStep == Len(storeLog') = Len(storeLog) + 1

\* the key of the Script the storeScript call of this step resolves to
StoredKey ==
  scriptKey(storeLog'[Len(storeLog')].targetId, storeLog'[Len(storeLog')].identifier)

\* C14: every storeScript call that resolves to an existing Script sets the
\* Script's lastSeen to the current time, whether or not the content is
\* new, and changes neither its firstSeen nor its id.
C14_LastSeenUpdated ==
  [][(StoreScriptStep /\ StoredKey \in DOMAIN db.scripts) =>
       /\ ~call'.ret.isNewScript
       /\ db'.scripts[StoredKey].lastSeen = now'
       /\ db'.scripts[StoredKey].firstSeen = db.scripts[StoredKey].firstSeen
       /\ db'.scripts[StoredKey].id = db.scripts[StoredKey].id
       /\ db'.scripts[StoredKey] = [db.scripts[StoredKey] EXCEPT !.lastSeen = now']]_vars

\* a known Script has been stored again with content it already has: its
\* lastSeen is the time of the call, later than its firstSeen
C14_Witness ==
  /\ call.op = "storeScript"
  /\ ~call.ret.isNewScript
  /\ ~call.ret.isNewVersion
  /\ \E k \in DOMAIN db.scripts :
       /\ db.scripts[k].id = call.ret.scriptId
       /\ db.scripts[k].lastSeen = now
       /\ db.scripts[k].firstSeen < now

\* C15: when a mutating store call (getOrCreateTarget that creates,
\* createScan, storeScript, removeTarget) has returned, the metadata file
\* holds the in-memory metadata: a store opened at that moment loads
\* every change the call acknowledged.
C15_SavedOnReturn ==
  call.op \in {"getOrCreateTarget", "createScan", "storeScript", "removeTarget"} =>
    loadDb(disk) = db

\* a storeScript call has returned a new Version, and a store opened now
\* loads that Version
C15_Witness ==
  /\ call.op = "storeScript"
  /\ call.ret.isNewVersion
  /\ disk.kind = "json"
  /\ \E n \in DOMAIN versionsOf(loadDb(disk), call.ret.scriptId) :
       versionsOf(loadDb(disk), call.ret.scriptId)[n].id = call.ret.versionId

\* C16: opening the store when the metadata file is missing, unreadable or
\* has invalid content yields the empty well-formed state (no targets,
\* scans, scripts or versions, every id counter at 1), and every store
\* operation then works on it without crashing.
C16_OpensEmptyAndWorks ==
  /\ call.op = "none" => db = EmptyDb
  /\ call.op # "TypeError"

\* the same for a file that is missing, cannot be read or is no JSON text
OpensEmptyUnlessJson ==
  /\ (call.op = "none" /\ disk.kind # "json") => db = EmptyDb
  /\ (call.op = "TypeError") => ~wellFormed(db)
  /\ \A f \in StartFiles : f.kind # "json" => wellFormed(loadDb(f))

(***************************************************************************)
(* Properties of the normalizer on strings that are no URLs.               *)
(***************************************************************************)
\* normalize has returned for a string that fails URL parsing
NormalizedInvalid == nr # <<>> /\ ~ParseURL(nq[1]).ok

\* C17 as stated: normalize(url) on a string that fails URL parsing returns
\* the raw input string as every field of the result: normalized form,
\* stable identifier, host, path and file name.
C17_InvalidUrlAllFieldsRaw ==
  NormalizedInvalid =>
    /\ nr[1].normalized = nq[1]
    /\ nr[1].identifier = nq[1]
    /\ nr[1].host = nq[1]
    /\ nr[1].pathname = nq[1]
    /\ nr[1].filename = nq[1]

\* C17 as the code has it: normalize(url) on a string that fails URL
\* parsing does not throw; it returns the raw input string as normalized
\* form, stable identifier, path and file name, and 'unknown' as host.
C17_InvalidUrlRawAndUnknownHost ==
  NormalizedInvalid =>
    /\ nr[1].original = nq[1]
    /\ nr[1].normalized = nq[1]
    /\ nr[1].identifier = nq[1]
    /\ nr[1].host = S_unknown
    /\ nr[1].pathname = nq[1]
    /\ nr[1].filename = nq[1]

\* normalize has returned for a string that is no URL and holds a token
\* the patterns would rewrite
C17_Witness ==
  /\ NormalizedInvalid
  /\ ApplyPatterns(nq[1]) # nq[1]
  /\ nr[1].identifier = nq[1]
  /\ nr[1].host = S_unknown

(***************************************************************************)
(* Properties of the Differ.                                               *)
(***************************************************************************)
\* diff has returned; its result is nr[2], the texts it diffed are nr[1]
DiffReturned == Len(nr) = 2

\* C18: for every text t, diff(t, t) yields stats with additions = 0,
\* deletions = 0 and changePercent = "0.00".
C18_SameTextNoChange ==
  (DiffReturned /\ nq[1] = nq[2]) =>
    /\ nr[2].stats.additions = 0
    /\ nr[2].stats.deletions = 0
    /\ nr[2].stats.changePercent = <<"0", ".", "0", "0">>

\* diff has returned for a text of two lines and itself, formatted
C18_Witness ==
  /\ DiffReturned
  /\ nq[1] = nq[2]
  /\ nq[3]
  /\ nr[1][1] # nq[1]
  /\ Len(lineTokens(nr[1][1])) = 2
  /\ nr[2].stats.unchanged = 2
  /\ nr[2].stats.changePercent = <<"0", ".", "0", "0">>

\* the number of non-empty strings of a sequence of strings
RECURSIVE NonEmpty(_)
NonEmpty(lines) ==
  IF lines = <<>> THEN 0
  ELSE (IF Head(lines) = <<>> THEN 0 ELSE 1) + NonEmpty(Tail(lines))

\* the number of non-empty lines of the parts of lineDiff tagged tag
RECURSIVE NonEmptyLines(_, _)
NonEmptyLines(lineDiff, tag) ==
  IF lineDiff = <<>> THEN 0
  ELSE (IF tagOf(Head(lineDiff)) = tag THEN NonEmpty(split(Head(lineDiff).value))
        ELSE 0)
       + NonEmptyLines(Tail(lineDiff), tag)

\* the stats count the non-empty lines of the segments
CountsNonEmptyLines ==
  /\ nr[2].stats.additions = NonEmptyLines(nr[2].lineDiff, "added")
  /\ nr[2].stats.deletions = NonEmptyLines(nr[2].lineDiff, "removed")
  /\ nr[2].stats.unchanged = NonEmptyLines(nr[2].lineDiff, "unchanged")

\* C19: for every segment sequence, the stats additions, deletions and
\* unchanged are the numbers of non-empty lines of the added, removed and
\* unchanged segments; the empty line after a final newline is not
\* counted, a last line without a final newline is.
C19_StatsCountNonEmptyLines == DiffReturned => CountsNonEmptyLines

\* every line of the text is non-empty and ends with a newline
PlainText(text) ==
  \A i \in DOMAIN lineTokens(text) :
    /\ Len(lineTokens(text)[i]) >= 2
    /\ lineTokens(text)[i][Len(lineTokens(text)[i])] = NL

\* the same for texts without blank lines whose last line ends with a
\* newline
StatsCountLinesOfPlainTexts ==
  (DiffReturned /\ PlainText(nr[1][1]) /\ PlainText(nr[1][2])) =>
    CountsNonEmptyLines

\* the number of lines of a text: the empty line after a final newline is
\* no line
LinesOf(text) == Len(lineTokens(text))

\* every line of the old text is replaced: the old text has lines and no
\* segment is unchanged
AllReplaced ==
  /\ LinesOf(nr[1][1]) > 0
  /\ \A i \in DOMAIN nr[2].lineDiff : tagOf(nr[2].lineDiff[i]) # "unchanged"

\* C20: changePercent is (additions + deletions) / max(totalOldLines, 1)
\* * 100 rounded to two decimal places, totalOldLines being the number of
\* lines of the old text; when every line of the old text is replaced,
\* unchanged is 0 and changePercent is computed from the old text's line
\* count.
C20_ChangePercentOfOldLines ==
  DiffReturned =>
    /\ nr[2].stats.changePercent =
         toFixed2(nr[2].stats.additions + nr[2].stats.deletions,
                  IF LinesOf(nr[1][1]) = 0 THEN 1 ELSE LinesOf(nr[1][1]))
    /\ AllReplaced => nr[2].stats.unchanged = 0

\* what the code computes: the divisor is the number of pieces into which
\* the newlines cut the old text, one more than the number of newlines
ChangePercentOfSplitLength ==
  DiffReturned =>
    /\ nr[2].stats.totalOld = Len(split(nr[1][1]))
    /\ nr[2].stats.changePercent =
         toFixed2(nr[2].stats.additions + nr[2].stats.deletions,
                  nr[2].stats.totalOld)
    /\ AllReplaced => nr[2].stats.unchanged = 0

\* every entry carries a line number of the text at which the text has the
\* entry's content
NumbersIn(entries, text) ==
  \A i \in DOMAIN entries :
    /\ entries[i].lineNumber \in DOMAIN split(text)
    /\ split(text)[entries[i].lineNumber] = entries[i].content

\* C21: every entry of changes.added carries the 1-based line number the
\* line has in the new text, every entry of changes.removed the one it has
\* in the old text; the running counter advances over unchanged and added
\* lines and not over removed ones.
C21_LineNumbersOfEachSide ==
  DiffReturned =>
    /\ NumbersIn(nr[2].changes.added, nr[1][2])
    /\ NumbersIn(nr[2].changes.removed, nr[1][1])

\* the added lines of texts without blank lines carry their line numbers
\* in the new text
AddedNumbersOfPlainTexts ==
  (DiffReturned /\ PlainText(nr[1][1]) /\ PlainText(nr[1][2])) =>
    NumbersIn(nr[2].changes.added, nr[1][2])

\* the try block of diff is over
TextsChosen == Len(nr) >= 1

\* C22: if the formatting pass fails on either input, diff computes the
\* line diff on the original unformatted text of both inputs: the two
\* sides of a diff are either both formatted or both unformatted.
C22_BothFormattedOrBothRaw ==
  TextsChosen =>
    \/ nr[1] = <<nq[1], nq[2]>>
    \/ nr[1] = <<formatted(nq[1]), formatted(nq[2])>>

\* the new text is always diffed as given or as formatted, and with
\* options.format false both texts are diffed as given
NewSideRawOrFormatted ==
  TextsChosen =>
    /\ nr[1][2] \in {nq[2], formatted(nq[2])}
    /\ ~nq[3] => nr[1] = <<nq[1], nq[2]>>

\* formatForTerminal has returned
TerminalFormatted == Len(nr) = 3

\* the diff lines of the output, the truncation marker left aside
DiffLinesOf(lines) == SelectSeq(lines, LAMBDA l : l # TRUNCATED)

\* the number of non-empty lines in all parts of a line diff
RECURSIVE AllNonEmptyLines(_)
AllNonEmptyLines(lineDiff) ==
  IF lineDiff = <<>> THEN 0
  ELSE Len(nonEmptyLinesOf(Head(lineDiff).value))
       + AllNonEmptyLines(Tail(lineDiff))

\* the output has the marker, as its last line
MarkerLast(lines) ==
  /\ lines # <<>>
  /\ lines[Len(lines)] = TRUNCATED
  /\ Len(DiffLinesOf(lines)) = Len(lines) - 1

\* C23: formatForTerminal with maximum N emits at most N diff lines;
\* whenever a non-empty diff line is left out the truncation marker is
\* emitted after exactly N diff lines, and when no line is left out no
\* marker is emitted.
C23_TruncationMarked ==
  TerminalFormatted =>
    /\ Len(DiffLinesOf(nr[3].lines)) <= nr[3].maxLines
    /\ IF Len(DiffLinesOf(nr[3].lines)) < AllNonEmptyLines(nr[2].lineDiff)
       THEN /\ MarkerLast(nr[3].lines)
            /\ Len(DiffLinesOf(nr[3].lines)) = nr[3].maxLines
       ELSE DiffLinesOf(nr[3].lines) = nr[3].lines

\* with a maximum of at least 1 no more than the maximum of diff lines is
\* emitted, and a marker, if any, comes last, after exactly that many
AtMostMaxLinesAndMarkerAfterMax ==
  (TerminalFormatted /\ nr[3].maxLines >= 1) =>
    /\ Len(DiffLinesOf(nr[3].lines)) <= nr[3].maxLines
    /\ DiffLinesOf(nr[3].lines) # nr[3].lines =>
         /\ MarkerLast(nr[3].lines)
         /\ Len(DiffLinesOf(nr[3].lines)) = nr[3].maxLines

(***************************************************************************)
(* Properties of the read projections.                                     *)
(***************************************************************************)
\* the Scans a target owns
ScansOf(targetId) == {i \in DOMAIN db.scans : db.scans[i].targetId = targetId}

\* the Scripts a target owns
ScriptsOf(targetId) ==
  {k \in DOMAIN db.scripts : db.scripts[k].targetId = targetId}

\* the timestamp of the earliest Scan of a target
EarliestScan(targetId) ==
  CHOOSE t \in {db.scans[i].timestamp : i \in ScansOf(targetId)} :
    \A i \in ScansOf(targetId) : t <= db.scans[i].timestamp

\* getAllTargets reports the true counts
TargetsTrueCounts ==
  call.op = "getAllTargets" =>
    \A dom \in DOMAIN call.ret :
      /\ call.ret[dom].script_count
           = Cardinality(ScriptsOf(db.targets[dom].id))
      /\ call.ret[dom].scan_count = Cardinality(ScansOf(db.targets[dom].id))

\* getHistory reports the true number of Scans and the earliest of them
HistoryTrueCounts ==
  call.op = "getHistory" =>
    /\ call.ret.stats.totalScans
         = Cardinality(ScansOf(db.targets[call.domain].id))
    /\ call.ret.stats.firstScan
         = IF ScansOf(db.targets[call.domain].id) = {} THEN <<>>
           ELSE <<EarliestScan(db.targets[call.domain].id)>>

\* C24: the read projections report true derived counts: getAllTargets
\* gives script_count and scan_count equal to the numbers of Scripts and of
\* Scans the target owns, getHistory gives totalScans equal to the number of
\* its Scans and firstScan equal to the timestamp of its earliest Scan, for
\* any number of scans.
C24_ReadsReportTrueCounts == TargetsTrueCounts /\ HistoryTrueCounts

\* the counts are true for every target of at most DEFAULT_LIMIT Scans,
\* and the count of Scripts is true for every target
ReadsTrueUpToLimit ==
  /\ call.op = "getAllTargets" =>
       \A dom \in DOMAIN call.ret :
         /\ call.ret[dom].script_count
              = Cardinality(ScriptsOf(db.targets[dom].id))
         /\ Cardinality(ScansOf(db.targets[dom].id)) <= DEFAULT_LIMIT =>
              call.ret[dom].scan_count
                = Cardinality(ScansOf(db.targets[dom].id))
  /\ (/\ call.op = "getHistory"
      /\ Cardinality(ScansOf(db.targets[call.domain].id)) <= DEFAULT_LIMIT) =>
       HistoryTrueCounts

(***************************************************************************)
(* Properties of the reads of stored content and of interrupted calls.     *)
(***************************************************************************)
\* the Version the read of call reaches, if any: the one asked for, the
\* latest of the Script, or the one before the current one
ReachedVersion ==
  IF call.op = "getVersionContent" THEN
    IF versionsById(db, call.versionId) = {} THEN <<>>
    ELSE <<CHOOSE v \in versionsById(db, call.versionId) : TRUE>>
  ELSE IF call.op = "getScriptWithContent" THEN
    IF getScriptVersions(db, call.scriptId) = <<>> THEN <<>>
    ELSE <<getScriptVersions(db, call.scriptId)[1]>>
  ELSE IF call.op = "getPreviousVersion" THEN
    IF \/ findIndexById(sortByIdDesc(versionsOf(db, call.scriptId)),
                        call.currentVersionId) = 0
       \/ findIndexById(sortByIdDesc(versionsOf(db, call.scriptId)),
                        call.currentVersionId)
            = Len(versionsOf(db, call.scriptId))
      THEN <<>>
    ELSE <<sortByIdDesc(versionsOf(db, call.scriptId))
             [findIndexById(sortByIdDesc(versionsOf(db, call.scriptId)),
                            call.currentVersionId) + 1]>>
  ELSE <<>>

\* the read reached a Version whose content file is absent
ReachedWithoutFile ==
  /\ ReachedVersion # <<>>
  /\ ReachedVersion[1].contentFile \notin DOMAIN files

\* the read returned the metadata of the Version it reached, and no content
MetadataWithoutContent ==
  /\ call.ret # <<>>
  /\ call.op = "getVersionContent" =>
       /\ call.ret[1].version = ReachedVersion[1]
       /\ call.ret[1].content = <<>>
  /\ call.op = "getScriptWithContent" =>
       /\ call.ret[1].latest # <<>>
       /\ call.ret[1].latest[1].content_hash = ReachedVersion[1].contentHash
       /\ call.ret[1].latest[1].content = <<>>
  /\ call.op = "getPreviousVersion" =>
       call.ret[1].version = ReachedVersion[1]

\* C25: when a Version record exists but its content file is absent, every
\* read that reaches that Version (getVersionContent, getScriptWithContent,
\* getPreviousVersion) returns the Version's metadata with no content
\* instead of failing or reporting the Version as absent.
C25_MissingFileReadsMetadata == ReachedWithoutFile => MetadataWithoutContent

\* getVersionContent and getScriptWithContent return the metadata of a
\* Version whose content file is absent, with no content
MissingFileReadsMetadataById ==
  (ReachedWithoutFile /\ call.op # "getPreviousVersion") => MetadataWithoutContent

(***************************************************************************)
(* Properties of the Version records.                                      *)
(***************************************************************************)
\* the Version records of the store, each with the id of its Script
VersionsIn(d) ==
  UNION {{versionsOf(d, sid)[i] : i \in DOMAIN versionsOf(d, sid)} :
           sid \in DOMAIN d.scriptVersions}

\* the target that owns the Script with this id
OwnerOf(d, scriptId) ==
  {d.scripts[k].targetId : k \in {x \in DOMAIN d.scripts : d.scripts[x].id = scriptId}}

\* this step is removeTarget of the target with this id
RemovesTarget(targetId) ==
  /\ call'.op = "removeTarget"
  /\ call'.known
  /\ db.targets[call'.domain].id = targetId

\* C26: a Version record is never modified after it is written: a later
\* storeScript that observes the same content from a later scan leaves the
\* existing Version (scanId, id, content hash, size, url, timestamp)
\* unchanged and writes no content file; Version records disappear only
\* through removeTarget of their owning target.
C26_VersionsImmutable ==
  [][/\ \A v \in VersionsIn(db) :
          \/ v \in VersionsIn(db')
          \/ /\ \A w \in VersionsIn(db') : w.id # v.id
             /\ \E targetId \in OwnerOf(db, v.scriptId) : RemovesTarget(targetId)
     /\ (StoreScriptStep /\ ~call'.ret.isNewVersion) => files' = files]_vars

\* storeScript has observed the content of an existing Version again, from
\* a later scan than the one that produced it
C26_Witness ==
  \E i \in DOMAIN storeLog :
    /\ ~storeLog[i].ret.isNewVersion
    /\ \E v \in VersionsIn(db) :
         /\ v.id = storeLog[i].ret.versionId
         /\ v.scanId < storeLog[i].scanId

\* this step is a call that dies before its saveDb
Interrupted == call'.op = "interrupted" /\ <<call', files'>> # <<call, files>>

\* every Version recorded in the metadata file has its content file
DurableVersionsHaveFiles(dsk, fs) ==
  \A v \in VersionsIn(loadDb(dsk)) : v.contentFile \in DOMAIN fs

\* C27: every mutating store operation is atomic under failure: if
\* storeScript or removeTarget is interrupted at any intermediate step, the
\* durable state found at the next open (metadata file and content files)
\* equals either the complete state before the call or the complete state
\* after it; in particular every Version recorded in the durable metadata
\* still has its content file.
C27_InterruptedAllOrNothing ==
  [][Interrupted =>
       /\ \/ <<disk', files'>> = <<disk, files>>
          \/ <<disk', files'>> = <<call'.whole.disk, call'.whole.files>>
       /\ DurableVersionsHaveFiles(disk', files')]_vars

\* a call that dies before its saveDb leaves the metadata file as it was
\* before the call
InterruptedKeepsMetadata == [][Interrupted => disk' = disk]_vars

\* when no call is interrupted, every Version recorded in the metadata file
\* has its content file
VersionsHaveFilesUninterrupted == DurableVersionsHaveFiles(disk, files)

\* the Script the last storeScript call has stored, as it is after the call
StoredScript == db'.scripts[StoredKey]

\* C28: after every storeScript call, the Script's canonical url attribute
\* equals the raw URL of the most recent observation of that Script.
C28_UrlOfLatestObservation ==
  [][StoreScriptStep => StoredScript.url = storeLog'[Len(storeLog')].url]_vars

\* the url of a Script is the raw URL of its first observation: storeScript
\* sets it when it creates the Script and leaves it as it is afterwards
UrlOfFirstObservation ==
  [][StoreScriptStep =>
       StoredScript.url = IF call'.ret.isNewScript
                            THEN storeLog'[Len(storeLog')].url
                            ELSE db.scripts[StoredKey].url]_vars

(***************************************************************************)
(* Properties of the Targets.                                              *)
(***************************************************************************)
\* the timestamps of the Scans of a target
ScanTimes(targetId) ==
  {db.scans[i].timestamp : i \in ScansOf(targetId)}

\* the target's last-scan timestamp is that of its most recent Scan
LastScanIsLatest(t) ==
  /\ t.lastScan # <<>>
  /\ t.lastScan[1] \in ScanTimes(t.id)
  /\ \A s \in ScanTimes(t.id) : s <= t.lastScan[1]

\* C29: a Target is created on the first scan of its domain: after any
\* sequence of CLI-level operations (scan, also when its extraction fails,
\* history, scripts, targets, diff, remove), every Target in the store has
\* at least one recorded Scan and a non-null last-scan timestamp equal to
\* the timestamp of its most recent Scan.
C29_TargetsHaveScans ==
  pc = "idle" =>
    \A dom \in DOMAIN db.targets :
      /\ ScansOf(db.targets[dom].id) # {}
      /\ LastScanIsLatest(db.targets[dom])

\* a Target without Scans has no last-scan timestamp, and every other
\* Target has the timestamp of its most recent Scan
LastScanOfScannedTargets ==
  pc = "idle" =>
    \A dom \in DOMAIN db.targets :
      IF ScansOf(db.targets[dom].id) = {} THEN db.targets[dom].lastScan = <<>>
      ELSE LastScanIsLatest(db.targets[dom])

\* the Versions of the store with this id, one for each Script and place
\* that holds such a Version
PlacesOfId(d, versionId) ==
  {<<sid, i>> \in (DOMAIN d.scriptVersions) \X (1..d.nextId.version) :
     /\ i \in DOMAIN versionsOf(d, sid)
     /\ versionsOf(d, sid)[i].id = versionId}

\* C30: within one store instance, version ids are unique across all
\* Scripts and targets and each content file is owned by exactly one
\* Version: a content file is written exactly once, when its Version is
\* created, and is never overwritten by any later operation.
C30_VersionIdsUniqueFilesWrittenOnce ==
  [][/\ \A v \in VersionsIn(db') :
          /\ Cardinality(PlacesOfId(db', v.id)) = 1
          /\ v.contentFile = contentFileOf(v.id)
          /\ v.contentFile \in DOMAIN files'
     /\ \A f \in DOMAIN files' :
          /\ \E v \in VersionsIn(db') : v.contentFile = f
          /\ IF f \in DOMAIN files THEN files'[f] = files[f]
             ELSE /\ StoreScriptStep
                  /\ call'.ret.isNewVersion
                  /\ f = contentFileOf(call'.ret.versionId)
                  /\ \A v \in VersionsIn(db) : v.id # call'.ret.versionId]_vars

\* two Scripts of two targets each have a Version, written by two
\* storeScript calls, each with a content file
C30_Witness ==
  /\ Len(storeLog) >= 2
  /\ \E v \in VersionsIn(db), w \in VersionsIn(db) :
       /\ v.scriptId # w.scriptId
       /\ OwnerOf(db, v.scriptId) # OwnerOf(db, w.scriptId)
       /\ v.contentFile \in DOMAIN files
       /\ w.contentFile \in DOMAIN files

\* a Version is created after a target with a Version was removed
VersionAfterRemoval ==
  /\ VersionsIn(db) # {}
  /\ \E i \in DOMAIN storeLog :
       /\ storeLog[i].ret.isNewVersion
       /\ \A v \in VersionsIn(db) : v.id # storeLog[i].ret.versionId

(***************************************************************************)
(* Properties of the monitor command.                                      *)
(***************************************************************************)
\* every scan the monitor has started is over
AllScansOver ==
  /\ mon.scans # <<>>
  /\ \A k \in DOMAIN mon.scans : mon.scans[k].pc \in {"done", "failed"}

\* the commit is in the metadata file: the Scan record as createScan made
\* it, and for each storeScript the Script and the Version it returned
CommitDurable(ack) ==
  /\ \E i \in DOMAIN loadDb(disk).scans : loadDb(disk).scans[i] = ack.created
  /\ \A j \in DOMAIN ack.stored :
       /\ \E key \in DOMAIN loadDb(disk).scripts :
            loadDb(disk).scripts[key].id = ack.stored[j].ret.scriptId
       /\ \E v \in VersionsIn(loadDb(disk)) :
            /\ v.id = ack.stored[j].ret.versionId
            /\ v.scriptId = ack.stored[j].ret.scriptId
            /\ v.contentHash = ack.stored[j].ret.contentHash
            /\ v.contentFile \in DOMAIN files
            /\ hashContent(files[v.contentFile]) = v.contentHash

\* no two Version records of the metadata file share an id or a content
\* file
DurableVersionsDistinct ==
  \A v \in VersionsIn(loadDb(disk)), w \in VersionsIn(loadDb(disk)) :
    (v.id = w.id \/ v.contentFile = w.contentFile) => v = w

\* C31: in monitor mode, when a scan is still running when the timer starts
\* the next one, every createScan and storeScript commit acknowledged by
\* either scan is still in the metadata file after both scans finish, and
\* no two Version records have the same version id or content file.
C31_OverlappingScansKeepCommits ==
  (AllScansOver /\ wellFormed(loadDb(disk))) =>
    /\ \A a \in DOMAIN mon.acks : CommitDurable(mon.acks[a])
    /\ DurableVersionsDistinct

\* the commits of a scan are in the metadata file at the moment they are
\* acknowledged, and the Version records of the file never share an id or a
\* content file
CommitsDurableWhenAcknowledged ==
  [][(wellFormed(loadDb(disk')) /\ Len(mon'.acks) > Len(mon.acks)) =>
       /\ \E i \in DOMAIN loadDb(disk').scans :
            loadDb(disk').scans[i] = mon'.acks[Len(mon'.acks)].created
       /\ \A v \in VersionsIn(loadDb(disk')), w \in VersionsIn(loadDb(disk')) :
            (v.id = w.id \/ v.contentFile = w.contentFile) => v = w]_vars

(***************************************************************************)
(* Properties of what a scan reports.                                      *)
(***************************************************************************)
\* the Script of the running scan's target with this identifier had a
\* Version before the running scan started
HadVersionBefore(identifier) ==
  /\ scriptKey(cur.target[1].id, identifier) \in DOMAIN db.scripts
  /\ \E v \in VersionsIn(db) :
       /\ v.scriptId = db.scripts[scriptKey(cur.target[1].id, identifier)].id
       /\ v.scanId # cur.scanId[1]

\* the places of results.scripts that are reported as updated
Updated == {i \in DOMAIN results.scripts :
              results.scripts[i].hasNewVersion /\ ~results.scripts[i].isNew}

\* C32: every script a scan reports as updated (hasNewVersion and not
\* isNew), and every entry of its changes list, concerns a Script that had
\* a Version before this scan started; two scripts of the same scan whose
\* URLs reduce to the same identifier are never diffed against each other.
C32_UpdatedHadVersionBefore ==
  pc = "store" =>
    /\ \A i \in Updated : HadVersionBefore(results.scripts[i].identifier)
    /\ \A c \in DOMAIN results.changes :
         HadVersionBefore(NormalizedInfo[results.changes[c].url].identifier)
    /\ \A c \in DOMAIN diffCalls :
         \E v \in VersionsIn(db) :
           /\ v.scanId # cur.scanId[1]
           /\ v.contentFile \in DOMAIN files
           /\ files[v.contentFile] = diffCalls[c].old

\* the first script of a scan with its identifier, when it is reported as
\* updated, concerns a Script that had a Version before the scan started
FirstOfIdentifierHadVersionBefore ==
  pc = "store" =>
    \A i \in Updated :
      (\A j \in 1..(i - 1) :
         results.scripts[j].identifier # results.scripts[i].identifier)
      => HadVersionBefore(results.scripts[i].identifier)

\* the storeScript call of this step
ThisStore == storeLog'[Len(storeLog')]

\* the Scan of the target before the Scan with this id, or 0
PrecedingScan(targetId, scanId) ==
  IF \A i \in DOMAIN db.scans :
       ~(db.scans[i].targetId = targetId /\ db.scans[i].id < scanId)
    THEN 0
  ELSE CHOOSE id \in {db.scans[i].id : i \in DOMAIN db.scans} :
         /\ id < scanId
         /\ \E i \in DOMAIN db.scans :
              db.scans[i].id = id /\ db.scans[i].targetId = targetId
         /\ \A i \in DOMAIN db.scans :
              (db.scans[i].targetId = targetId /\ db.scans[i].id < scanId)
                => db.scans[i].id <= id

\* the earlier storeScript calls that observed the Script of this step
EarlierObservations ==
  {i \in DOMAIN storeLog :
     /\ storeLog[i].targetId = ThisStore.targetId
     /\ storeLog[i].identifier = ThisStore.identifier}

\* this step's scan reports the script as changed and records a diff
ReportedChanged ==
  /\ ThisStore.ret.isNewVersion
  /\ Len(diffCalls') = Len(diffCalls) + 1
  /\ Len(results'.changes) = Len(results.changes) + 1

\* C33: if the content observed for a Script in a scan differs from the
\* content observed for it in the target's preceding scan, the scan reports
\* the script as changed (hasNewVersion) and records a diff, also when the
\* content reverts to one the Script had in an earlier scan (A, B, A).
C33_ChangeSincePrecedingScanReported ==
  [][StoreScriptStep =>
       \A i \in EarlierObservations :
         (/\ storeLog[i].scanId
               = PrecedingScan(ThisStore.targetId, ThisStore.scanId)
          /\ \A j \in EarlierObservations :
               storeLog[j].scanId = storeLog[i].scanId => j <= i
          /\ storeLog[i].content # ThisStore.content)
         => ReportedChanged]_vars

\* a content that was never observed for the Script is reported as changed
\* and diffed
UnseenContentReported ==
  [][(/\ StoreScriptStep
      /\ EarlierObservations # {}
      /\ \A i \in EarlierObservations : storeLog[i].content # ThisStore.content)
       => ReportedChanged]_vars

\* this step's scan diffs the script it stores
DiffStep == StoreScriptStep /\ Len(diffCalls') = Len(diffCalls) + 1

\* the latest of the earlier observations of this step's Script
LastObservation ==
  CHOOSE i \in EarlierObservations : \A j \in EarlierObservations : j <= i

\* C34: whenever a scan diffs a script, the old side of the diff is the
\* content most recently observed for that Script before the current
\* observation (after A, B, A, C the diff for C is against A).
C34_DiffAgainstLastObserved ==
  [][DiffStep =>
       /\ EarlierObservations # {}
       /\ diffCalls'[Len(diffCalls')].old = storeLog[LastObservation].content]_vars

\* the old side of a diff is the content of the Version of the Script
\* created last before the new one
DiffAgainstLastCreated ==
  [][DiffStep =>
       \E v \in VersionsIn(db) :
         /\ v.scriptId = ThisStore.ret.scriptId
         /\ \A w \in VersionsIn(db) : w.scriptId = v.scriptId => w.id <= v.id
         /\ diffCalls'[Len(diffCalls')].old = files[v.contentFile]]_vars

\* C35: for every diff result, stats.additions equals the number of entries
\* in changes.added and stats.deletions the number of entries in
\* changes.removed.
C35_StatsCountChangeEntries ==
  DiffReturned =>
    /\ nr[2].stats.additions = Len(nr[2].changes.added)
    /\ nr[2].stats.deletions = Len(nr[2].changes.removed)

\* the counts agree when both texts have no blank line and end with a
\* newline
StatsCountChangeEntriesOfPlainTexts ==
  (DiffReturned /\ PlainText(nr[1][1]) /\ PlainText(nr[1][2])) =>
    /\ nr[2].stats.additions = Len(nr[2].changes.added)
    /\ nr[2].stats.deletions = Len(nr[2].changes.removed)

\* the Version with this id is a Version of the Script of the call, and its
\* content file exists
VersionOfCalledScript(versionId) ==
  \E v \in VersionsIn(db) :
    /\ v.id = versionId
    /\ v.scriptId = call.scriptId

\* the content file of the Version with this id exists
FileOfVersionExists(versionId) ==
  \E v \in VersionsIn(db) : v.id = versionId /\ v.contentFile \in DOMAIN files

\* C36: diffVersions(scriptId, v1, v2) returns a diff only when both v1 and
\* v2 are Versions of the Script scriptId; it never diffs a Version of a
\* different Script, and it succeeds for every pair of that Script's
\* Versions whose content files exist (also for a Version whose content is
\* the empty text).
C36_DiffVersionsOfTheScriptOnly ==
  call.op = "diffVersions" =>
    /\ call.ret # <<>> =>
         /\ VersionOfCalledScript(call.versionId1)
         /\ VersionOfCalledScript(call.versionId2)
    /\ (/\ VersionOfCalledScript(call.versionId1)
        /\ VersionOfCalledScript(call.versionId2)
        /\ FileOfVersionExists(call.versionId1)
        /\ FileOfVersionExists(call.versionId2))
       => call.ret # <<>>

\* diffVersions returns a diff exactly when both ids are Versions of the
\* store with a content file that is not empty, whatever Script they
\* belong to
DiffVersionsOfAnyScript ==
  call.op = "diffVersions" =>
    (call.ret # <<>>
       <=> \A id \in {call.versionId1, call.versionId2} :
             \E v \in VersionsIn(db) :
               /\ v.id = id
               /\ v.contentFile \in DOMAIN files
               /\ files[v.contentFile] # <<>>)

\* the ids of the Targets of a store
TargetIdsOf(d) == {d.targets[dom].id : dom \in DOMAIN d.targets}

\* every Script's target id names a Target, every Version list belongs to a
\* Script, every Scan's target id names a Target, and every Version's scanId
\* names a Scan of the target that owns the Version's Script
Consistent(d) ==
  /\ \A k \in DOMAIN d.scripts : d.scripts[k].targetId \in TargetIdsOf(d)
  /\ \A sid \in DOMAIN d.scriptVersions :
       \E k \in DOMAIN d.scripts : d.scripts[k].id = sid
  /\ \A i \in DOMAIN d.scans : d.scans[i].targetId \in TargetIdsOf(d)
  /\ \A v \in VersionsIn(d) :
       \E i \in DOMAIN d.scans :
         /\ d.scans[i].id = v.scanId
         /\ d.scans[i].targetId \in OwnerOf(d, v.scriptId)

\* C37: after any sequence of scans and target removals the metadata is
\* referentially consistent: every Script's target id names an existing
\* Target, every Version list belongs to an existing Script, every Scan's
\* target id names an existing Target, and every Version's scanId names an
\* existing Scan of the target that owns the Version's Script.
C37_MetadataConsistent ==
  wellFormed(loadDb(disk)) => Consistent(loadDb(disk))

\* the metadata is referentially consistent as long as no scanned host name
\* is a property of Object.prototype
ConsistentForOrdinaryDomains ==
  (wellFormed(loadDb(disk)) /\ cur.domain \notin ObjectPrototypeKeys)
    => Consistent(loadDb(disk))

\* a target was removed while another target keeps Scripts, Versions and
\* Scans
ConsistentAfterRemoval ==
  /\ call.op = "removeTarget"
  /\ call.known
  /\ db.scans # <<>>
  /\ VersionsIn(db) # {}

\* the ids the acknowledged scans of the monitor were given by createScan,
\* one per scan
ScanIdsAssigned == [a \in DOMAIN mon.acks |-> mon.acks[a].created.id]

\* the places where a storeScript call of the monitor created a Version
VersionsAssigned ==
  UNION {{<<a, j>> : j \in {x \in DOMAIN mon.acks[a].stored :
                              mon.acks[a].stored[x].ret.isNewVersion}} :
           a \in DOMAIN mon.acks}

\* C38: while the metadata file stays loadable, no target, scan, script or
\* version id is ever assigned twice, also across removeTarget and reopening
\* the store; a domain scanned again after its removal gets a Target with a
\* fresh id that owns no earlier record, so its first observation of each
\* script reports isNewScript and isNewVersion.
C38_IdsAssignedOnce ==
  /\ \A a \in DOMAIN mon.acks, b \in DOMAIN mon.acks :
       a # b => ScanIdsAssigned[a] # ScanIdsAssigned[b]
  /\ \A p \in VersionsAssigned, q \in VersionsAssigned :
       p # q => mon.acks[p[1]].stored[p[2]].ret.versionId
                  # mon.acks[q[1]].stored[q[2]].ret.versionId

\* the ids in use in a store, by kind
IdsOf(d) ==
  [target  |-> TargetIdsOf(d),
   scan    |-> {d.scans[i].id : i \in DOMAIN d.scans},
   script  |-> {d.scripts[k].id : k \in DOMAIN d.scripts},
   version |-> {v.id : v \in VersionsIn(d)}]

\* one command after the other, each on a freshly opened store: the counters
\* never go back, every id in use is below its counter, and an id that
\* appears in a step is one the counter had not reached before
IdsFreshInSequence ==
  [][\A kind \in {"target", "scan", "script", "version"} :
       /\ loadDb(disk').nextId[kind] >= loadDb(disk).nextId[kind]
       /\ \A id \in IdsOf(loadDb(disk'))[kind] :
            /\ id < loadDb(disk').nextId[kind]
            /\ id \notin IdsOf(loadDb(disk))[kind]
                 => id >= loadDb(disk).nextId[kind]]_vars

\* the first observation of an identifier by a Target reports a new Script
\* and a new Version, also when the domain was scanned under an earlier
\* Target that has been removed
FirstObservationIsNew ==
  \A i \in DOMAIN storeLog :
    (\A j \in 1..(i - 1) :
       <<storeLog[j].targetId, storeLog[j].identifier>>
         # <<storeLog[i].targetId, storeLog[i].identifier>>)
      => storeLog[i].ret.isNewScript /\ storeLog[i].ret.isNewVersion

\* a domain is scanned again after its removal: the same script with the
\* same content is stored for two Targets
RescannedAfterRemoval ==
  \E i \in DOMAIN storeLog, j \in DOMAIN storeLog :
    /\ i < j
    /\ storeLog[i].url = storeLog[j].url
    /\ storeLog[i].content = storeLog[j].content
    /\ cur.domain = A_COM
    /\ storeLog[i].targetId < storeLog[j].targetId
    /\ storeLog[j].ret.isNewScript
    /\ storeLog[j].ret.versionId > storeLog[i].ret.versionId
    /\ Cardinality(DOMAIN db.targets) = 1

\* the step leaves the store as it was: the metadata and the content files
StoreUnchanged == loadDb(disk') = loadDb(disk) /\ files' = files

\* C39: the read-only operations (getHistory, listTargets, getScriptDetails,
\* diffVersions, getTargetScripts, getTargetScans, getScriptVersions,
\* getPreviousVersion) leave the store unchanged for every argument, also
\* for a domain or an id that is not in the store: no record is created or
\* modified and no id is consumed.
C39_ReadsLeaveStoreUnchanged ==
  [][call'.op \in {"getHistory", "getAllTargets"} => StoreUnchanged]_vars

\* listTargets, and getHistory of a domain that is in the store, leave the
\* store unchanged
ReadsOfKnownLeaveStoreUnchanged ==
  [][(\/ call'.op = "getAllTargets"
      \/ /\ call'.op = "getHistory"
         /\ call'.domain \in DOMAIN loadDb(disk).targets) => StoreUnchanged]_vars

\* getHistory of a domain that is not in the store creates its Target and
\* takes the next target id
HistoryOfUnknownCreatesTarget ==
  [][(/\ call'.op = "getHistory"
      /\ call'.domain \notin DOMAIN loadDb(disk).targets)
     => /\ DOMAIN loadDb(disk').targets
             = DOMAIN loadDb(disk).targets \cup {call'.domain}
        /\ loadDb(disk').targets[call'.domain].id = loadDb(disk).nextId.target
        /\ loadDb(disk').nextId.target = loadDb(disk).nextId.target + 1]_vars

\* diffVersions leaves the store unchanged, whatever the ids
DiffVersionsLeavesStoreUnchanged ==
  [][call'.op = "diffVersions" => StoreUnchanged]_vars

\* some scan of the monitor has failed
SomeScanFailed == \E k \in DOMAIN mon.scans : mon.scans[k].pc = "failed"

\* the monitor has started all the scans the model follows it for
AllScansStarted == Len(mon.scans) = MaxMonitorScans

\* C40: in monitor mode a failed scan never stops monitoring: after any scan
\* that fails (extraction error, store error) the interval timer still
\* starts a further scan, so scans keep being started, here up to the last
\* scan the model follows.
C40_FailedScanKeepsMonitoring == SomeScanFailed ~> AllScansStarted

\* every failed scan but the last is followed by the start of a further scan
FailedScanIsFollowed ==
  \A k \in 1..(MaxMonitorScans - 1) :
    (Len(mon.scans) >= k /\ mon.scans[k].pc = "failed")
      ~> (Len(mon.scans) > k)

\* the first scan failed in its extraction, a later one failed too, and the
\* timer has started all further scans
C40_Witness ==
  /\ AllScansStarted
  /\ mon.scans[1].pc = "failed"
  /\ mon.scans[1].target # <<>>
  /\ \E k \in 2..Len(mon.scans) : mon.scans[k].pc = "failed"
  /\ mon.timer = "set"

\* every scan failed on a metadata file the store cannot work with, and the
\* timer has started all of them
StoreErrorsKeepMonitoring ==
  /\ AllScansStarted
  /\ \A k \in DOMAIN mon.scans :
       mon.scans[k].pc = "failed" /\ mon.scans[k].target = <<>>

=============================================================================
